---- MODULE Spec2Model ----
(***************************************************************************)
(* Verification model of the nanoparticle simulator core:                  *)
(*   - ParticleEnsemble   (particles/ensemble.py)                          *)
(*   - StochasticSolver   (particles/stochastic_solver.py)                 *)
(*   - operator splitting (reactor/splitting.py)                           *)
(*                                                                         *)
(* Conventions                                                             *)
(*   - Python lists are 0-based, TLA+ sequences 1-based: list index k is   *)
(*     sequence position k + 1.  All index parameters below are 0-based,   *)
(*     as in the source.                                                   *)
(*   - The statistical weight is a float that only ever gets multiplied by *)
(*     2.0 or 0.5, which is exact in binary floating point.  It is stored  *)
(*     as the integer  w * WUnit  (WUnit a power of two).                  *)
(*   - Times are integer ticks.                                            *)
(*   - Particle identity (_id, _next_id) is bookkeeping that no operation  *)
(*     reads; it is left out of the particle record.                       *)
(***************************************************************************)
EXTENDS Integers, Sequences, FiniteSets, TLC

(***************************************************************************)
(* Bounds of the model                                                     *)
(***************************************************************************)
\* the weight can be halved WBits times starting from 1.0
WBits == 2
WUnit == 2 ^ WBits
\* largest weight explored: 2^WBits
WMax == WUnit * WUnit
\* SolverConfig.sample_volume and ParticleEnsemble.__init__: the default 1e-9 m3
default_sample_volume == 1
\* ReactorBase.__init__: the default volume 1e-6 m3
default_volume == 1000
\* the value of result when the last call was not a query; <<>> stands for None
NoCall == <<-1>>
\* the volumes a client passes
VolumeSet == {0, default_sample_volume, default_volume}
\* ensemble configurations explored: max_particles in 1..MaxMaxParticles
MaxMaxParticles == 2
\* min_particles in 0..MaxMinParticles
MaxMinParticles == MaxMaxParticles
\* a bare ParticleEnsemble is explored with max_particles and min_particles up to MaxSize
MaxSize == MaxMaxParticles + 1
\* the largest number of carbon or hydrogen atoms of a particle a test constructs
MaxAtoms == 2
\* iterations of the event loop of one step(); stands for max_iterations = 10000
MaxIterations == 2
\* events performed since the last initialize() are explored up to MaxEvents
MaxEvents == 2
\* the solver clock is explored up to MaxTime ticks
MaxTime == 1
\* step() is called with dt in -1 .. MaxDt ticks
MaxDt == MaxTime
\* sampled waiting times are 0 .. MaxTau ticks (0: a waiting time below the
\* resolution of the clock)
MaxTau == MaxTime + 1

VARIABLES
    particles,            \* ParticleEnsemble._particles
    statistical_weight,   \* ParticleEnsemble._statistical_weight (times WUnit)
    max_particles,        \* ParticleEnsemble._max_particles
    min_particles,        \* ParticleEnsemble._min_particles
    sample_volume,        \* ParticleEnsemble._sample_volume, in units of 1e-9 m3
    result,               \* what the last call returned, when it was a query of a client
    log,                  \* logger.debug lines written by the last operation
    last,                 \* the last operation and the ensemble it started from
    processes,            \* StochasticSolver._nucleation/_growth/_coagulation/_oxidation that are set
    config,               \* SolverConfig.defer_growth, defer_oxidation
    total_time,           \* StochasticSolver._total_time
    n_events,             \* StochasticSolver._n_events
    event_counts,         \* StochasticSolver._event_counts
    deferred_size,        \* length of _deferred_growth / _deferred_oxidation
    pc,                   \* "idle", or "loop" while step() is in its for loop
    gas,                  \* step(): the gas argument
    dt,                   \* step(): the dt argument
    t_start,              \* step(): local t_start
    t_end,                \* step(): local t_end
    iter,                 \* step(): iterations of the for loop begun so far
    step_events,          \* step(): local n_events, the return value
    exit,                 \* how the last step() left its loop
    scheme,               \* which OperatorSplitter the reactor uses
    has_particles,        \* OperatorSplitter._particles is not None
    splitting_config,     \* PredictorCorrector._config (SplittingConfig)
    volume,               \* ReactorBase._volume, in units of 1e-9 m3
    gas_constructed,      \* the state of the gas the reactor was constructed with
    run,                  \* the frame of BatchReactor.run: its arguments and locals
    time,                 \* ReactorBase._time
    gas_state,            \* the GasPhase object: what the rate laws read, and its age
    particle_sources,     \* ODESolver._particle_sources
    ode_last,             \* the last integration: its inputs, its result and its success
    split_pc,             \* position inside OperatorSplitter.step
    split_dt,             \* OperatorSplitter.step: the dt argument
    sub_steps,            \* the sub-steps the current macro step has performed
    initial_state,        \* PredictorCorrector.step: local initial_state
    predicted_state,      \* PredictorCorrector.step: local predicted_state
    corrected_state,      \* PredictorCorrector.step: local corrected_state
    corr_iter,            \* PredictorCorrector.step: loop variable i
    seed,                 \* SolverConfig.seed: "None", or the integer given
    twin,                 \* a second StochasticSolver built from the same SolverConfig
    identity,             \* id() of the object at each position of ParticleEnsemble._particles
    callback              \* StochasticSolver.step: argument callback, and the events it has been handed

ensemble_vars == <<particles, statistical_weight, max_particles, min_particles, sample_volume,
                   result,
                   log, last>>
solver_vars == <<processes, config, total_time, n_events, event_counts, deferred_size>>
step_vars == <<pc, gas, dt, t_start, t_end, iter, step_events, exit>>
split_vars == <<scheme, has_particles, splitting_config, volume, gas_constructed, run, time, gas_state, particle_sources, ode_last,
                split_pc, split_dt, sub_steps,
                initial_state, predicted_state, corrected_state, corr_iter>>
twin_vars == <<seed, twin>>
vars == <<ensemble_vars, solver_vars, step_vars, split_vars, twin_vars, identity, callback>>

(***************************************************************************)
(* Particle (particles/particle.py)                                        *)
(***************************************************************************)
Particle(c, h, p, a, t) ==
    [n_carbon |-> c, n_hydrogen |-> h, n_primary |-> p, active_sites |-> a,
     creation_time |-> t]

\* Particle.copy: a new record with the same field values
copy(p) ==
    Particle(p.n_carbon, p.n_hydrogen, p.n_primary, p.active_sites, p.creation_time)

Min(a, b) == IF a <= b THEN a ELSE b
Max(a, b) == IF a >= b THEN a ELSE b

\* a coagulation that stamps the aggregate with the later creation time
coagulateLatest(p1, p2) ==
    Particle(p1.n_carbon + p2.n_carbon,
             p1.n_hydrogen + p2.n_hydrogen,
             p1.n_primary + p2.n_primary,
             p1.active_sites + p2.active_sites,
             Max(p1.creation_time, p2.creation_time))

\* Particle.coagulate
coagulate(p1, p2) ==
    Particle(p1.n_carbon + p2.n_carbon,
             p1.n_hydrogen + p2.n_hydrogen,
             p1.n_primary + p2.n_primary,
             p1.active_sites + p2.active_sites,
             Min(p1.creation_time, p2.creation_time))

(***************************************************************************)
(* ParticleEnsemble (particles/ensemble.py).  An ensemble value E is the   *)
(* record [particles, statistical_weight, log]; the operators return the   *)
(* ensemble after the call.                                                *)
(***************************************************************************)
Ensemble(ps, w, lg) == [particles |-> ps, statistical_weight |-> w, log |-> lg]

n_particles(E) == Len(E.particles)

\* list.pop(index) on a sequence, index 0-based
Pop(s, index) == SubSeq(s, 1, index) \o SubSeq(s, index + 2, Len(s))

\* the list without the 0-based indices in idxs (popped from the highest down)
RECURSIVE PopAll(_, _)
PopAll(s, idxs) ==
    IF idxs = {} THEN s
    ELSE LET hi == CHOOSE i \in idxs : \A j \in idxs : j <= i
         IN  PopAll(Pop(s, hi), idxs \ {hi})

\* the outcomes of rng.choice(n, size=k, replace=False): k distinct indices
Choices(n, k) == {S \in SUBSET (0 .. n - 1) : Cardinality(S) = k}

\* ParticleEnsemble._halve, for the indices drawn by the generator
_halve(E, indices) ==
    LET ps == PopAll(E.particles, indices)
    IN  Ensemble(ps, E.statistical_weight * 2,
                 Append(E.log, <<"Halved", Len(ps)>>))

\* the draws _halve can make on ensemble E
HalveChoices(E) == Choices(n_particles(E), n_particles(E) \div 2)

\* a doubling that copies the particles and leaves the weight alone
_doubleKeepingWeight(E) ==
    LET ps == E.particles \o [i \in 1 .. Len(E.particles) |-> copy(E.particles[i])]
    IN  Ensemble(ps, E.statistical_weight,
                 Append(E.log, <<"Doubled", Len(ps)>>))

\* ParticleEnsemble._double
_double(E) ==
    LET ps == E.particles \o [i \in 1 .. Len(E.particles) |-> copy(E.particles[i])]
    IN  Ensemble(ps, E.statistical_weight \div 2,
                 Append(E.log, <<"Doubled", Len(ps)>>))

\* ParticleEnsemble.add_particle; indices is the draw of a halving, if one happens
add_particle(E, maxp, particle, indices) ==
    LET E1 == Ensemble(Append(E.particles, particle), E.statistical_weight, E.log)
    IN  IF n_particles(E1) > maxp THEN _halve(E1, indices) ELSE E1

\* the draws add_particle can make: those of the halving when it triggers
AddChoices(E, maxp) ==
    IF n_particles(E) + 1 > maxp
    THEN Choices(n_particles(E) + 1, (n_particles(E) + 1) \div 2)
    ELSE {{}}

\* ParticleEnsemble.remove_particle (the ensemble after the call)
remove_particle(E, minp, index) ==
    LET E1 == Ensemble(Pop(E.particles, index), E.statistical_weight, E.log)
    IN  IF n_particles(E1) < minp /\ n_particles(E1) > 0 THEN _double(E1) ELSE E1

\* ParticleEnsemble.clear
clear(E) == Ensemble(<<>>, WUnit, E.log)

\* ParticleEnsemble.number_density, times WUnit * sample_volume
number_density(E) == n_particles(E) * E.statistical_weight

\* weighted atom totals of the population, times WUnit
RECURSIVE SumSeq(_, _)
SumSeq(ps, field) ==
    IF ps = <<>> THEN 0 ELSE Head(ps)[field] + SumSeq(Tail(ps), field)

total_carbon(E) == SumSeq(E.particles, "n_carbon")

\* the ensemble held in the variables
Ens == Ensemble(particles, statistical_weight, log)

\* what an operation records about the ensemble it starts from
Before(op) ==
    [op |-> op, n |-> Len(particles), w |-> statistical_weight,
     C |-> SumSeq(particles, "n_carbon") * statistical_weight,
     H |-> SumSeq(particles, "n_hydrogen") * statistical_weight,
     P |-> SumSeq(particles, "n_primary") * statistical_weight]

\* the weight stays inside the range the model represents exactly
WeightInRange(E) == E.statistical_weight >= 1 /\ E.statistical_weight <= WMax

SetEnsemble(E) ==
    /\ particles' = E.particles
    /\ statistical_weight' = E.statistical_weight
    /\ log' = E.log

(***************************************************************************)
(* Processes (particles/processes.py).  The gas is the record of the       *)
(* concentrations the rate laws read, [A4, C2H2, O2, OH], and the set of    *)
(* these species that the mechanism does not have (absent).  Rates are     *)
(* integers in units of 1/RateScale events per tick.                       *)
(***************************************************************************)
RateScale == 16

Gas(a4, c2h2, o2, oh, absent) ==
    [A4 |-> a4, C2H2 |-> c2h2, O2 |-> o2, OH |-> oh, absent |-> absent]

\* GasPhase.species_concentration: the concentration, or KeyError raised
species_concentration(g, name) ==
    IF name \in g.absent
    THEN [raised |-> TRUE, value |-> 0]
    ELSE [raised |-> FALSE, value |-> g[name]]

\* Particle.mass in atomic mass units (C_MASS ~ 12, H_MASS ~ 1)
mass(p) == 12 * p.n_carbon + p.n_hydrogen

\* Particle.surface_area = n_primary * pi * d_p^2 with d_p ~ (n_carbon/n_primary)^(1/3):
\* an integer stand-in that is 0 exactly when n_carbon = 0 and grows with n_carbon
surface_area(p) == p.n_carbon

\* NucleationProcess.rate: 0.5 * k_nuc * [A4]^2 * AVOGADRO, 0.0 when the lookup raises
nucleation_rate(g) ==
    LET c_precursor == species_concentration(g, "A4")
    IN  IF c_precursor.raised THEN 0 ELSE c_precursor.value * c_precursor.value

\* GrowthProcess.rate: k_growth * chi * [C2H2], 0.0 when the lookup raises
growth_rate(g) ==
    LET c_c2h2 == species_concentration(g, "C2H2")
    IN  IF c_c2h2.raised THEN 0 ELSE c_c2h2.value

\* GrowthProcess.carbon_addition_rate
carbon_addition_rate(g, p) == growth_rate(g) * surface_area(p)

\* an oxidation rate with both lookups in one try
oxidation_rateOneTry(g) ==
    LET o2 == species_concentration(g, "O2")
        oh == species_concentration(g, "OH")
    IN  IF o2.raised \/ oh.raised THEN 0 ELSE o2.value + oh.value

\* OxidationProcess.rate: (k_o2 * [O2] + k_oh * [OH]) * AVOGADRO, each lookup
\* in a try of its own
oxidation_rate(g) ==
    LET o2 == species_concentration(g, "O2")
        oh == species_concentration(g, "OH")
        c_o2 == IF o2.raised THEN 0 ELSE o2.value
        c_oh == IF oh.raised THEN 0 ELSE oh.value
    IN  c_o2 + c_oh

\* OxidationProcess.carbon_removal_rate
carbon_removal_rate(g, p) == oxidation_rate(g) * surface_area(p)

\* a kernel under which no pair ever collides
kernelZero(p1, p2) == 0

\* CoagulationProcess.kernel: 0 when a mass is not positive, positive otherwise
kernel(p1, p2) == IF mass(p1) <= 0 \/ mass(p2) <= 0 THEN 0 ELSE 1

\* NucleationProcess defaults n_carbon_nascent, n_hydrogen_nascent
n_carbon_nascent == 32
n_hydrogen_nascent == 18

\* a nascent particle without a primary particle
create_nascent_particleNoPrimary(c, h, t) == Particle(c, h, 0, 2, t)

\* create_nascent_particle
create_nascent_particle(c, h, t) == Particle(c, h, 1, 2, t)

(***************************************************************************)
(* StochasticSolver (particles/stochastic_solver.py)                       *)
(***************************************************************************)
EventType == {"NUCLEATION", "GROWTH", "COAGULATION", "OXIDATION", "NONE"}

ProcessRates(n, g, c, o) == [nucleation |-> n, growth |-> g, coagulation |-> c, oxidation |-> o]

Abs(x) == IF x < 0 THEN -x ELSE x

\* ProcessRates.total_rate
total_rate(rates) ==
    Abs(rates.nucleation) + Abs(rates.growth) + Abs(rates.coagulation) + Abs(rates.oxidation)

\* sum of f over the particles of a list
RECURSIVE SumRate(_, _, _)
SumRate(ps, g, kind) ==
    IF ps = <<>> THEN 0
    ELSE (IF kind = "growth" THEN carbon_addition_rate(g, Head(ps))
          ELSE carbon_removal_rate(g, Head(ps)))
         + SumRate(Tail(ps), g, kind)

\* a pair selection that does not step over idx1
select_random_pairUnshifted(E) ==
    IF n_particles(E) < 2 THEN {}
    ELSE {<<idx1, d>> : idx1 \in 0 .. n_particles(E) - 1, d \in 0 .. n_particles(E) - 2}

\* ParticleEnsemble.select_random_pair: the pairs (idx1, idx2) it can return
select_random_pair(E) ==
    IF n_particles(E) < 2 THEN {}
    ELSE {<<idx1, IF d >= idx1 THEN d + 1 ELSE d>> :
             idx1 \in 0 .. n_particles(E) - 1, d \in 0 .. n_particles(E) - 2}

\* StochasticSolver._compute_coagulation_rate: the values the sampled estimate
\* can take (the sampled kernels are summed; the estimate is 0 when every sampled
\* pair has kernel 0 and positive when some sampled pair has a positive kernel)
_compute_coagulation_rate(E, procs) ==
    IF "coagulation" \notin procs \/ n_particles(E) < 2 THEN {0}
    ELSE {kernel(E.particles[pr[1] + 1], E.particles[pr[2] + 1]) : pr \in select_random_pair(E)}

\* StochasticSolver.compute_rates, for the value coag of the sampled coagulation rate
compute_rates(g, E, procs, coag) ==
    ProcessRates(
        IF "nucleation" \in procs THEN nucleation_rate(g) ELSE 0,
        IF n_particles(E) > 0 /\ "growth" \in procs THEN SumRate(E.particles, g, "growth") ELSE 0,
        IF n_particles(E) > 0 /\ "coagulation" \in procs /\ n_particles(E) > 1 THEN coag ELSE 0,
        IF n_particles(E) > 0 /\ "oxidation" \in procs THEN SumRate(E.particles, g, "oxidation") ELSE 0)

\* a selection whose comparisons include the upper end of each interval
_select_eventInclusive(rates, r) ==
    IF total_rate(rates) <= 0 THEN "NONE"
    ELSE IF r <= rates.nucleation THEN "NUCLEATION"
    ELSE IF r <= rates.nucleation + rates.growth THEN "GROWTH"
    ELSE IF r <= rates.nucleation + rates.growth + rates.coagulation THEN "COAGULATION"
    ELSE "OXIDATION"

\* StochasticSolver._select_event, for r = uniform() * total in 0 .. total - 1
_select_event(rates, r) ==
    IF total_rate(rates) <= 0 THEN "NONE"
    ELSE IF r < rates.nucleation THEN "NUCLEATION"
    ELSE IF r < rates.nucleation + rates.growth THEN "GROWTH"
    ELSE IF r < rates.nucleation + rates.growth + rates.coagulation THEN "COAGULATION"
    ELSE "OXIDATION"

\* np.sum over an array of weights
RECURSIVE np_sum(_)
np_sum(weights) ==
    IF weights = <<>> THEN 0 ELSE Head(weights) + np_sum(Tail(weights))

\* a selection that does not look at the sum of the weights
select_weightedUnchecked(E, weights) ==
    IF n_particles(E) = 0 THEN {} ELSE 0 .. n_particles(E) - 1

\* ParticleEnsemble.select_weighted: the indices it can return ({} stands for None)
select_weighted(E, weights) ==
    IF n_particles(E) = 0 THEN {}
    ELSE IF np_sum(weights) <= 0 THEN {}
    ELSE {i \in 0 .. n_particles(E) - 1 : weights[i + 1] > 0}

\* An event outcome: the ensemble after the event and whether an event record
\* was returned (fired) or None, and whether _reset_deferred ran
Outcome(E, fired, reset) == [E |-> E, fired |-> fired, reset |-> reset]

\* a nucleation that reports an event and appends no particle
_do_nucleationWithoutAppend(E, procs, maxp, now) ==
    IF "nucleation" \notin procs THEN {Outcome(E, FALSE, FALSE)}
    ELSE {Outcome(E, TRUE, TRUE)}

\* StochasticSolver._do_nucleation: outcomes over the draws of a halving
_do_nucleation(E, procs, maxp, now) ==
    IF "nucleation" \notin procs THEN {Outcome(E, FALSE, FALSE)}
    ELSE LET particle == create_nascent_particle(n_carbon_nascent, n_hydrogen_nascent, now)
         IN  {Outcome(add_particle(E, maxp, particle, indices), TRUE, TRUE) :
                 indices \in AddChoices(E, maxp)}

\* an addition that forgets the hydrogen
AddAtomsCarbonOnly(E, idx, c, h) ==
    Ensemble([E.particles EXCEPT ![idx + 1].n_carbon = @ + c],
             E.statistical_weight, E.log)

\* Particle.add_carbon / add_hydrogen on the particle at index idx
AddAtoms(E, idx, c, h) ==
    Ensemble([E.particles EXCEPT ![idx + 1].n_carbon = @ + c,
                                 ![idx + 1].n_hydrogen = @ + h],
             E.statistical_weight, E.log)

\* StochasticSolver._do_growth: outcomes over the weighted selection
_do_growth(E, procs, g) ==
    IF "growth" \notin procs \/ n_particles(E) = 0 THEN {Outcome(E, FALSE, FALSE)}
    ELSE LET weights == [i \in 1 .. n_particles(E) |->
                             carbon_addition_rate(g, E.particles[i])]
             sel == select_weighted(E, weights)
         IN  IF sel = {} THEN {Outcome(E, FALSE, FALSE)}
             ELSE {Outcome(AddAtoms(E, idx, 2, 1), TRUE, FALSE) : idx \in sel}

\* a coagulation that removes only the parent with the higher index
_do_coagulationOneRemoval(E, procs, minp, maxp) ==
    IF "coagulation" \notin procs \/ n_particles(E) < 2 THEN {Outcome(E, FALSE, FALSE)}
    ELSE UNION {
        LET i == pr[1]
            j == pr[2]
            new_particle == coagulate(E.particles[i + 1], E.particles[j + 1])
            E2 == remove_particle(E, minp, Max(i, j))
        IN  {Outcome(add_particle(E2, maxp, new_particle, indices), TRUE, TRUE) :
                indices \in AddChoices(E2, maxp)}
        : pr \in select_random_pair(E)}

\* StochasticSolver._do_coagulation: outcomes over the pair and the halving draws
_do_coagulation(E, procs, minp, maxp) ==
    IF "coagulation" \notin procs \/ n_particles(E) < 2 THEN {Outcome(E, FALSE, FALSE)}
    ELSE UNION {
        LET i == pr[1]
            j == pr[2]
            new_particle == coagulate(E.particles[i + 1], E.particles[j + 1])
            E2 == IF i > j
                  THEN remove_particle(remove_particle(E, minp, i), minp, j)
                  ELSE remove_particle(remove_particle(E, minp, j), minp, i)
        IN  {Outcome(add_particle(E2, maxp, new_particle, indices), TRUE, TRUE) :
                indices \in AddChoices(E2, maxp)}
        : pr \in select_random_pair(E)}

\* a removal that takes what is there when too few are left
RemoveUpToClamped(have, n) == IF have >= n THEN have - n ELSE 0

\* Particle.remove_carbon / remove_hydrogen: nothing is removed when too few are left
RemoveUpTo(have, n) == IF have >= n THEN have - n ELSE have

\* Particle.remove_carbon: the particle after the call and the value returned
remove_carbon(p, n) ==
    [particle |-> [p EXCEPT !.n_carbon = RemoveUpTo(p.n_carbon, n)],
     returned |-> p.n_carbon >= n]

\* Particle.remove_hydrogen: the particle after the call and the value returned
remove_hydrogen(p, n) ==
    [particle |-> [p EXCEPT !.n_hydrogen = RemoveUpTo(p.n_hydrogen, n)],
     returned |-> p.n_hydrogen >= n]

\* an oxidation that removes one carbon atom whatever the size of the particle
_do_oxidationOneAtom(E, procs, g, minp) ==
    IF "oxidation" \notin procs \/ n_particles(E) = 0 THEN {Outcome(E, FALSE, FALSE)}
    ELSE LET weights == [i \in 1 .. n_particles(E) |->
                             carbon_removal_rate(g, E.particles[i])]
             sel == select_weighted(E, weights)
         IN  IF sel = {} THEN {Outcome(E, FALSE, FALSE)}
             ELSE {LET particle == E.particles[idx + 1]
                       n_remove == 1
                       c == RemoveUpTo(particle.n_carbon, n_remove)
                       h == RemoveUpTo(particle.n_hydrogen, n_remove \div 4)
                       E1 == Ensemble([E.particles EXCEPT ![idx + 1].n_carbon = c,
                                                          ![idx + 1].n_hydrogen = h],
                                      E.statistical_weight, E.log)
                   IN  IF c <= 0
                       THEN Outcome(remove_particle(E1, minp, idx), TRUE, TRUE)
                       ELSE Outcome(E1, TRUE, FALSE)
                   : idx \in sel}

\* StochasticSolver._do_oxidation: outcomes over the weighted selection
_do_oxidation(E, procs, g, minp) ==
    IF "oxidation" \notin procs \/ n_particles(E) = 0 THEN {Outcome(E, FALSE, FALSE)}
    ELSE LET weights == [i \in 1 .. n_particles(E) |->
                             carbon_removal_rate(g, E.particles[i])]
             sel == select_weighted(E, weights)
         IN  IF sel = {} THEN {Outcome(E, FALSE, FALSE)}
             ELSE {LET particle == E.particles[idx + 1]
                       n_remove == Max(1, particle.n_carbon \div 100)
                       c == RemoveUpTo(particle.n_carbon, n_remove)
                       h == RemoveUpTo(particle.n_hydrogen, n_remove \div 4)
                       E1 == Ensemble([E.particles EXCEPT ![idx + 1].n_carbon = c,
                                                          ![idx + 1].n_hydrogen = h],
                                      E.statistical_weight, E.log)
                   IN  IF c <= 0
                       THEN Outcome(remove_particle(E1, minp, idx), TRUE, TRUE)
                       ELSE Outcome(E1, TRUE, FALSE)
                   : idx \in sel}

\* StochasticSolver._perform_event
\* a dispatch that reports an event whether or not one was performed
_perform_eventReported(event_type, E, procs, g, minp, maxp, now) ==
    {Outcome(out.E, TRUE, out.reset) :
        out \in IF event_type = "NUCLEATION" THEN _do_nucleation(E, procs, maxp, now)
                ELSE IF event_type = "GROWTH" THEN _do_growth(E, procs, g)
                ELSE IF event_type = "COAGULATION" THEN _do_coagulation(E, procs, minp, maxp)
                ELSE IF event_type = "OXIDATION" THEN _do_oxidation(E, procs, g, minp)
                ELSE {Outcome(E, FALSE, FALSE)}}

_perform_event(event_type, E, procs, g, minp, maxp, now) ==
    IF event_type = "NUCLEATION" THEN _do_nucleation(E, procs, maxp, now)
    ELSE IF event_type = "GROWTH" THEN _do_growth(E, procs, g)
    ELSE IF event_type = "COAGULATION" THEN _do_coagulation(E, procs, minp, maxp)
    ELSE IF event_type = "OXIDATION" THEN _do_oxidation(E, procs, g, minp)
    ELSE {Outcome(E, FALSE, FALSE)}

\* StochasticSolver._apply_deferred over the remaining time d
_apply_deferred(E, procs, cfg, g, d) ==
    IF ~cfg.defer_growth /\ ~cfg.defer_oxidation THEN E
    ELSE Ensemble(
            [k \in 1 .. Len(E.particles) |->
                LET particle == E.particles[k]
                    n_add == (carbon_addition_rate(g, particle) * d) \div RateScale
                IN  IF cfg.defer_growth /\ "growth" \in procs /\ n_add > 0
                    THEN [particle EXCEPT !.n_carbon = @ + n_add,
                                          !.n_hydrogen = @ + (n_add \div 2)]
                    ELSE particle],
            E.statistical_weight, E.log)

\* StochasticSolver._reset_deferred: the length of the accumulators
_reset_deferred(E) == Max(1, n_particles(E))

(***************************************************************************)
(* Specification Spec: the stochastic solver.  A client constructs the     *)
(* solver, registers processes, and then calls initialize() and step().    *)
(* step() is modelled one loop iteration at a time.                        *)
(***************************************************************************)
ProcessNames == {"nucleation", "growth", "coagulation", "oxidation"}

\* SolverConfig: the deferment flags
SolverConfig(g, o) == [defer_growth |-> g, defer_oxidation |-> o]

\* the solvers explored: the processes registered with add_process and the config
Solvers ==
    {[processes |-> ProcessNames, config |-> SolverConfig(TRUE, TRUE)],
     [processes |-> ProcessNames, config |-> SolverConfig(FALSE, FALSE)],
     [processes |-> ProcessNames \ {"coagulation"}, config |-> SolverConfig(FALSE, TRUE)],
     [processes |-> {"coagulation"}, config |-> SolverConfig(TRUE, FALSE)]}

\* gases handed to step(): concentrations zero or positive; one gas with a
\* concentration an integrator has left slightly below zero; one gas of a
\* mechanism that has none of A4, C2H2, O2, its only oxidiser being OH
GasSet ==
    {Gas(0, 0, 0, 0, {}),
     Gas(1, 0, 0, 0, {}),
     Gas(0, 1, 0, 0, {}),
     Gas(1, 1, 1, 0, {}),
     Gas(0, -1, 0, 0, {}),
     Gas(0, 0, 0, 1, {"A4", "C2H2", "O2"})}

\* initial_particles lists handed to initialize()
InitialParticles ==
    {<<>>,
     <<Particle(1, 0, 1, 0, 0)>>,
     <<Particle(32, 18, 1, 2, 0), Particle(1, 0, 1, 0, 0)>>,
     <<Particle(32, 18, 1, 2, 0), Particle(32, 18, 1, 2, 0), Particle(0, 0, 1, 0, 0)>>}

NoEvents == [e \in EventType |-> 0]

\* the ensembles add_particle can leave after adding the particles of ps in order
RECURSIVE AddAll(_, _, _)
AddAll(Es, maxp, ps) ==
    IF ps = <<>> THEN Es
    ELSE AddAll(UNION {{add_particle(E, maxp, Head(ps), indices) :
                           indices \in AddChoices(E, maxp)} : E \in Es},
                maxp, Tail(ps))

NoGas == Gas(0, 0, 0, 0, {})

NoState == [conc |-> NoGas, age |-> -1]
NoIntegration ==
    [from |-> NoState, sources |-> <<>>, dt |-> 0, to |-> NoState, success |-> TRUE]

\* SplittingConfig defaults
max_corrector_iters == 3
\* corrector_tol, in units of one concentration level
corrector_tol == 0

\* SplittingConfig: the default, and for the predictor-corrector every smaller
\* number of corrector iterations
SplittingConfigs(k) ==
    {[max_corrector_iters |-> n] :
        n \in IF k = "PREDICTOR" THEN 1 .. max_corrector_iters ELSE {max_corrector_iters}}

\* the frame of BatchReactor.run when no run() has been called
NoRun ==
    [pc |-> "idle", duration |-> 0, dt |-> 0, output_interval |-> 0, n_steps |-> 0,
     n_outputs |-> 0, i |-> 0, next_output_time |-> 0, output_idx |-> 0, times |-> <<>>]

\* the reactor side at rest: splitter kind k, particle solver attached or not
SplitIdle(k, attached, G) ==
    /\ scheme = k
    /\ has_particles = attached
    /\ splitting_config \in SplittingConfigs(k)
    /\ volume = default_volume
    /\ run = NoRun
    /\ time = 0
    /\ gas_state \in G
    /\ gas_constructed = gas_state
    /\ particle_sources = <<>>
    /\ ode_last = NoIntegration
    /\ split_pc = "idle"
    /\ split_dt = 0
    /\ sub_steps = <<>>
    /\ initial_state = NoState
    /\ predicted_state = NoState
    /\ corrected_state = NoState
    /\ corr_iter = 0

\* what the model keeps of the second solver, before it is built
NoTwin ==
    [particles |-> <<>>, statistical_weight |-> 0, total_time |-> 0, n_events |-> 0,
     event_counts |-> NoEvents, event |-> "none", queried |-> FALSE]

\* the specifications that hold the particles by value keep no identities
NoIdentity == <<>>

\* step(gas, dt): callback is None
NoCallback == [given |-> FALSE, calls |-> <<>>]

\* step(gas, dt, callback) with a callback that keeps the events it is handed
Recorder == [given |-> TRUE, calls |-> <<>>]

\* a step that hands the callback the outcome of every draw
InvokeEveryDraw(cb, event_type, t, fired) ==
    IF cb.given
    THEN [cb EXCEPT !.calls = Append(@, [event_type |-> event_type, time |-> t])]
    ELSE cb

\* step(): if event is not None ... if callback is not None: callback(event)
Invoke(cb, event_type, t, fired) ==
    IF fired /\ cb.given
    THEN [cb EXCEPT !.calls = Append(@, [event_type |-> event_type, time |-> t])]
    ELSE cb

\* a run with one solver and the default SolverConfig.seed
Untwinned ==
    /\ seed = "None"
    /\ twin = NoTwin

\* no step() has returned since construction / initialize()
StepIdle ==
    /\ pc = "idle"
    /\ gas = NoGas
    /\ dt = 0
    /\ t_start = 0
    /\ t_end = 0
    /\ iter = 0
    /\ step_events = 0
    /\ exit = "none"

\* StochasticSolver.__init__ followed by add_process for the processes of the run
Init ==
    /\ particles = <<>>
    /\ statistical_weight = WUnit
    /\ max_particles \in 1 .. MaxMaxParticles
    /\ min_particles \in 0 .. MaxMinParticles
    /\ sample_volume = default_sample_volume
    /\ result = NoCall
    /\ log = <<>>
    /\ last = [op |-> "init", n |-> 0, w |-> WUnit, C |-> 0, H |-> 0, P |-> 0]
    /\ \E s \in Solvers : processes = s.processes /\ config = s.config
    /\ total_time = 0
    /\ n_events = 0
    /\ event_counts = NoEvents
    /\ deferred_size = 0
    /\ StepIdle
    /\ Untwinned
    /\ identity = NoIdentity
    /\ callback = NoCallback
    /\ SplitIdle("NONE", FALSE, {NoState})

\* StochasticSolver.initialize
Initialize ==
    /\ pc = "idle"
    /\ \E ps \in InitialParticles :
       \E E \in AddAll({clear(Ensemble(particles, statistical_weight, <<>>))},
                       max_particles, ps) :
           /\ WeightInRange(E)
           /\ SetEnsemble(E)
           /\ deferred_size' = _reset_deferred(E)
    /\ total_time' = 0
    /\ n_events' = 0
    /\ event_counts' = NoEvents
    /\ last' = [op |-> "initialize", n |-> 0, w |-> WUnit, C |-> 0, H |-> 0, P |-> 0]
    /\ dt' = 0
    /\ t_start' = 0
    /\ step_events' = 0
    /\ exit' = "none"
    /\ UNCHANGED <<max_particles, min_particles, sample_volume, result, processes, config, pc, gas, t_end, iter>>
    /\ UNCHANGED <<split_vars, twin_vars, identity, callback>>

\* StochasticSolver.step, entry: lines up to the for loop
StepEntry(g, d) ==
    /\ pc = "idle"
    /\ total_time + d <= MaxTime
    /\ gas' = g
    /\ dt' = d
    /\ t_end' = total_time + d
    /\ t_start' = total_time
    /\ iter' = 0
    /\ step_events' = 0
    /\ exit' = "none"
    /\ pc' = "loop"
    /\ last' = Before("step")
    /\ log' = <<>>
    /\ UNCHANGED <<particles, statistical_weight, max_particles, min_particles, sample_volume, result, solver_vars>>

\* a client calls step(gas, dt)
StepBegin ==
    /\ \E g \in GasSet, d \in -1 .. MaxDt : StepEntry(g, d)
    /\ UNCHANGED <<split_vars, twin_vars, identity, callback>>

\* step() returns: its frame is gone, the model keeps the arguments dt and the
\* entry clock t_start, the return value step_events and the exit taken
Return(how) ==
    /\ pc' = "idle"
    /\ exit' = how
    /\ last' = Before(how)
    /\ gas' = NoGas
    /\ t_end' = 0
    /\ iter' = 0
    /\ UNCHANGED <<dt, t_start, step_events>>

\* an exhausted loop that returns 0 instead of the number of events performed
StepCapReturnsZero ==
    /\ pc = "loop"
    /\ iter = MaxIterations
    /\ pc' = "idle"
    /\ exit' = "cap"
    /\ last' = Before("cap")
    /\ gas' = NoGas
    /\ t_end' = 0
    /\ iter' = 0
    /\ step_events' = 0
    /\ UNCHANGED <<dt, t_start>>
    /\ UNCHANGED <<particles, statistical_weight, log, max_particles, min_particles, sample_volume, result, solver_vars>>
    /\ UNCHANGED <<split_vars, twin_vars, identity, callback>>

\* the for loop is exhausted
\* a client calls step(gas, dt, callback)
StepBeginCallback ==
    /\ \E g \in GasSet, d \in -1 .. MaxDt : StepEntry(g, d)
    /\ callback' = Recorder
    /\ UNCHANGED <<split_vars, twin_vars, identity>>

StepCap ==
    /\ pc = "loop"
    /\ iter = MaxIterations
    /\ Return("cap")
    /\ UNCHANGED <<particles, statistical_weight, log, max_particles, min_particles, sample_volume, result, solver_vars>>
    /\ UNCHANGED <<split_vars, twin_vars, identity, callback>>

\* a break that first moves the clock to t_end
StepReachedSetsClock ==
    /\ pc = "loop"
    /\ iter < MaxIterations
    /\ total_time >= t_end
    /\ total_time' = t_end
    /\ Return("reached")
    /\ UNCHANGED <<particles, statistical_weight, log, max_particles, min_particles, sample_volume, result,
                   processes, config, n_events, event_counts, deferred_size>>
    /\ UNCHANGED <<split_vars, twin_vars, identity, callback>>

\* if self._total_time >= t_end: break
StepReached ==
    /\ pc = "loop"
    /\ iter < MaxIterations
    /\ total_time >= t_end
    /\ Return("reached")
    /\ UNCHANGED <<particles, statistical_weight, log, max_particles, min_particles, sample_volume, result, solver_vars>>
    /\ UNCHANGED <<split_vars, twin_vars, identity, callback>>

\* the rates the iteration can compute
IterRates ==
    {compute_rates(gas, Ens, processes, coag) : coag \in _compute_coagulation_rate(Ens, processes)}

\* if total_rate <= 0: the clock jumps to t_end
StepZeroRate ==
    /\ pc = "loop"
    /\ iter < MaxIterations
    /\ total_time < t_end
    /\ \E rates \in IterRates : total_rate(rates) <= 0
    /\ total_time' = t_end
    /\ Return("zero_rate")
    /\ UNCHANGED <<particles, statistical_weight, log, max_particles, min_particles, sample_volume, result,
                   processes, config, n_events, event_counts, deferred_size>>
    /\ UNCHANGED <<split_vars, twin_vars, identity, callback>>

\* the waiting time overshoots t_end: deferred pass over the residual
StepResidual ==
    /\ pc = "loop"
    /\ iter < MaxIterations
    /\ total_time < t_end
    /\ \E rates \in IterRates : total_rate(rates) > 0
    /\ \E tau \in 0 .. MaxTau : total_time + tau > t_end
    /\ SetEnsemble(_apply_deferred(Ensemble(particles, statistical_weight, <<>>),
                                   processes, config, gas, t_end - total_time))
    /\ total_time' = t_end
    /\ Return("residual")
    /\ UNCHANGED <<max_particles, min_particles, sample_volume, result,
                   processes, config, n_events, event_counts, deferred_size>>
    /\ UNCHANGED <<split_vars, twin_vars, identity, callback>>

\* the waiting time fits: the clock advances and one event is drawn and performed
StepEvent ==
    /\ pc = "loop"
    /\ iter < MaxIterations
    /\ n_events < MaxEvents
    /\ total_time < t_end
    /\ \E rates \in IterRates :
       \E tau \in 0 .. MaxTau :
       \E event_type \in {_select_event(rates, r) : r \in 0 .. total_rate(rates) - 1} :
       \E out \in _perform_event(event_type, Ensemble(particles, statistical_weight, <<>>),
                                 processes, gas, min_particles, max_particles,
                                 total_time + tau) :
           /\ total_rate(rates) > 0
           /\ total_time + tau <= t_end
           /\ WeightInRange(out.E)
           /\ SetEnsemble(out.E)
           /\ total_time' = total_time + tau
           /\ deferred_size' = IF out.reset THEN _reset_deferred(out.E) ELSE deferred_size
           /\ step_events' = IF out.fired THEN step_events + 1 ELSE step_events
           /\ n_events' = IF out.fired THEN n_events + 1 ELSE n_events
           /\ event_counts' = IF out.fired
                              THEN [event_counts EXCEPT ![event_type] = @ + 1]
                              ELSE event_counts
           /\ last' = Before(IF out.fired THEN event_type ELSE "NONE")
           /\ callback' = Invoke(callback, event_type, total_time + tau, out.fired)
    /\ iter' = iter + 1
    /\ UNCHANGED <<max_particles, min_particles, sample_volume, result, processes, config,
                   pc, gas, dt, t_start, t_end, exit>>
    /\ UNCHANGED <<split_vars, twin_vars, identity>>

Next ==
    \/ Initialize
    \/ StepBegin
    \/ StepCap
    \/ StepReached
    \/ StepZeroRate
    \/ StepResidual
    \/ StepEvent

Spec == Init /\ [][Next]_vars

\* a solver whose ensemble has the largest capacity and no lower bound
InitCallback ==
    /\ Init
    /\ max_particles = MaxMaxParticles
    /\ min_particles = 0

\* the engine driven by a client whose every step call passes a callback
NextCallback ==
    \/ Initialize
    \/ StepBeginCallback
    \/ StepCap
    \/ StepReached
    \/ StepZeroRate
    \/ StepResidual
    \/ StepEvent

SpecCallback == InitCallback /\ [][NextCallback]_vars

(***************************************************************************)
(* Operator splitting (reactor/splitting.py) driven by BatchReactor.step   *)
(* (reactor/batch.py).  The gas is [conc, age]: conc is what the rate laws *)
(* read, age the span the state has been integrated over, in half ticks.   *)
(* The integrator is a deterministic function of (state, sources, dt) that *)
(* the model does not know: an integration picks any outcome, except that  *)
(* repeating the last integration repeats its result.                      *)
(***************************************************************************)
\* StochasticSolver.get_source_terms, in units of 1 / (4 * AVOGADRO)
get_source_terms(g, E, procs) ==
    LET rates == compute_rates(g, E, procs, 0)
        keys == (IF "nucleation" \in procs THEN {"A4", "H2"} ELSE {})
                \cup (IF "growth" \in procs THEN {"C2H2", "H2"} ELSE {})
                \cup (IF "oxidation" \in procs THEN {"O2", "CO"} ELSE {})
        nuc == IF "nucleation" \in procs THEN rates.nucleation ELSE 0
        gro == IF "growth" \in procs THEN rates.growth ELSE 0
        oxi == IF "oxidation" \in procs THEN rates.oxidation ELSE 0
    IN  [k \in keys |->
            IF k = "A4" THEN -8 * nuc
            ELSE IF k = "H2" THEN 4 * nuc + gro
            ELSE IF k = "C2H2" THEN -2 * gro
            ELSE IF k = "O2" THEN -2 * oxi
            ELSE 4 * oxi]

\* GasPhase.get_state: a snapshot of the gas
get_state(g) == [conc |-> g.conc, age |-> g.age]

\* a restore that leaves the gas where the last advance put it
restore_stateSkipped(g, state) == g

\* GasPhase.restore_state: the gas after set_state_TPY(state.T, state.P, state.Y)
restore_state(g, state) == [conc |-> state.conc, age |-> state.age]

\* the compositions an integration is explored to end in
OdeOutcomes == {g \in GasSet : g.C2H2 = g.O2 /\ g.OH = 0 /\ g.absent = {}}

\* the states ODESolver.integrate can leave the gas in after d half ticks
integrate(g, sources, d) ==
    IF ode_last.from = g /\ ode_last.sources = sources /\ ode_last.dt = d
    THEN {ode_last.to}
    ELSE [conc : OdeOutcomes, age : {g.age + d}]

\* a check that accepts every corrected state
_check_convergenceAlways(state1, state2) == TRUE

\* PredictorCorrector._check_convergence; the model carries no temperature
_check_convergence(state1, state2) ==
    LET Y_err == Max(Max(Abs(state2.conc.A4 - state1.conc.A4),
                         Abs(state2.conc.C2H2 - state1.conc.C2H2)),
                     Max(Abs(state2.conc.O2 - state1.conc.O2),
                         Abs(state2.conc.OH - state1.conc.OH)))
    IN  ~(Y_err > corrector_tol)

pc_locals == <<initial_state, predicted_state, corrected_state, corr_iter>>
split_config == <<scheme, has_particles, splitting_config, volume, gas_constructed, run>>

\* OperatorSplitter._update_gas_sources, called at position from
_update_gas_sources(from, to) ==
    /\ split_pc = from
    /\ pc = "idle"
    /\ split_pc' = to
    /\ particle_sources' =
           IF has_particles
           THEN get_source_terms(gas_state.conc, Ens, processes)
           ELSE <<>>
    /\ sub_steps' = Append(sub_steps, <<"sources">>)
    /\ UNCHANGED <<split_config, twin_vars, identity, callback, time, gas_state, ode_last, split_dt, pc_locals>>
    /\ UNCHANGED <<ensemble_vars, solver_vars, step_vars>>

\* the values of result.success of solve_ivp: a repeated integration repeats it;
\* failures are explored on the gas-only reactor
success(g, sources, d) ==
    IF ode_last.from = g /\ ode_last.sources = sources /\ ode_last.dt = d
    THEN {ode_last.success}
    ELSE IF has_particles THEN {TRUE} ELSE BOOLEAN

\* a gas sub-step that raises when the integrator reports failure
_advance_gasRaising(from, to, d) ==
    /\ split_pc = from
    /\ pc = "idle"
    /\ \E g \in integrate(gas_state, particle_sources, d) :
       \E ok \in success(gas_state, particle_sources, d) :
           /\ split_pc' = IF ok THEN to ELSE "raised"
           /\ gas_state' = IF ok THEN g ELSE gas_state
           /\ ode_last' = [from |-> gas_state, sources |-> particle_sources,
                           dt |-> d, to |-> g, success |-> ok]
    /\ sub_steps' = Append(sub_steps, <<"gas", d>>)
    /\ UNCHANGED <<split_config, twin_vars, identity, callback, time, particle_sources, split_dt, pc_locals>>
    /\ UNCHANGED <<ensemble_vars, solver_vars, step_vars>>

\* OperatorSplitter._advance_gas over d half ticks, called at position from:
\* ODESolver.integrate logs a warning when result.success is false and sets the
\* gas to result.y[:, -1] either way
_advance_gas(from, to, d) ==
    /\ split_pc = from
    /\ pc = "idle"
    /\ split_pc' = to
    /\ \E g \in integrate(gas_state, particle_sources, d) :
       \E ok \in success(gas_state, particle_sources, d) :
           /\ gas_state' = g
           /\ ode_last' = [from |-> gas_state, sources |-> particle_sources,
                           dt |-> d, to |-> g, success |-> ok]
    /\ sub_steps' = Append(sub_steps, <<"gas", d>>)
    /\ UNCHANGED <<split_config, twin_vars, identity, callback, time, particle_sources, split_dt, pc_locals>>
    /\ UNCHANGED <<ensemble_vars, solver_vars, step_vars>>

\* a particle sub-step that uses up the gas it is handed
_advance_particlesConsuming(from, to) ==
    /\ split_pc = from
    /\ split_pc' = to
    /\ sub_steps' = Append(sub_steps, <<"particles", 2 * split_dt>>)
    /\ IF has_particles
       THEN StepEntry(gas_state.conc, split_dt)
       ELSE UNCHANGED <<ensemble_vars, solver_vars, step_vars>>
    /\ gas_state' = [gas_state EXCEPT !.conc = NoGas]
    /\ UNCHANGED <<split_config, twin_vars, identity, callback, time, particle_sources, ode_last,
                   split_dt, pc_locals>>

\* OperatorSplitter._advance_particles: the call enters StochasticSolver.step
_advance_particles(from, to) ==
    /\ split_pc = from
    /\ split_pc' = to
    /\ sub_steps' = Append(sub_steps, <<"particles", 2 * split_dt>>)
    /\ IF has_particles
       THEN StepEntry(gas_state.conc, split_dt)
       ELSE UNCHANGED <<ensemble_vars, solver_vars, step_vars>>
    /\ UNCHANGED <<split_config, twin_vars, identity, callback, time, gas_state, particle_sources, ode_last,
                   split_dt, pc_locals>>

\* BatchReactor.step: the call of self._splitter.step(dt)
MacroBegin(first) ==
    /\ split_pc = "idle"
    /\ pc = "idle"
    /\ \E d \in 1 .. MaxDt :
           /\ time + d <= MaxTime
           /\ split_dt' = d
    /\ split_pc' = first
    /\ sub_steps' = <<>>
    /\ initial_state' = NoState
    /\ predicted_state' = NoState
    /\ corrected_state' = NoState
    /\ corr_iter' = 0
    /\ UNCHANGED <<split_config, twin_vars, identity, callback, time, gas_state, particle_sources, ode_last>>
    /\ UNCHANGED <<ensemble_vars, solver_vars, step_vars>>

\* BatchReactor.step: the splitter has returned, self._time += dt; the frame of
\* splitter.step is gone and the record of its sub-steps is dropped with it
MacroEnd(from) ==
    /\ split_pc = from
    /\ pc = "idle"
    /\ split_pc' = "idle"
    /\ time' = time + split_dt
    /\ split_dt' = 0
    /\ sub_steps' = <<>>
    /\ ode_last' = NoIntegration
    /\ initial_state' = NoState
    /\ predicted_state' = NoState
    /\ corrected_state' = NoState
    /\ corr_iter' = 0
    /\ UNCHANGED <<split_config, twin_vars, identity, callback, gas_state, particle_sources>>
    /\ UNCHANGED <<ensemble_vars, solver_vars, step_vars>>

\* the event loop of the particle solver, running inside _advance_particles
ParticleLoop == StepCap \/ StepReached \/ StepZeroRate \/ StepResidual \/ StepEvent

\* the gases the reactor is constructed with: the precursor is present
InitialGas == {g \in GasSet : g.A4 = 1}

\* the engine configurations the reactor runs are explored with
InitReactor(k) ==
    /\ particles = <<>>
    /\ statistical_weight = WUnit
    /\ max_particles = 2
    /\ min_particles \in {0, 2}
    /\ sample_volume = default_sample_volume
    /\ result = NoCall
    /\ log = <<>>
    /\ last = [op |-> "init", n |-> 0, w |-> WUnit, C |-> 0, H |-> 0, P |-> 0]
    /\ processes = ProcessNames
    /\ config = SolverConfig(TRUE, TRUE)
    /\ total_time = 0
    /\ n_events = 0
    /\ event_counts = NoEvents
    /\ deferred_size = 0
    /\ StepIdle
    /\ Untwinned
    /\ identity = NoIdentity
    /\ callback = NoCallback
    /\ \E attached \in BOOLEAN : SplitIdle(k, attached, [conc : InitialGas, age : {0}])

\* initialize() of the attached particle solver, between macro steps
InitializeParticles ==
    /\ split_pc = "idle"
    /\ has_particles
    /\ time = 0
    /\ Initialize

(***************************************************************************)
(* Specification SpecStrang: StrangSplitter.step                           *)
(***************************************************************************)
\* a macro step that starts with the gas half step and refreshes the sources after it
StrangStepGasFirst ==
    \/ MacroBegin("strang_gas1")
    \/ _advance_gas("strang_gas1", "strang_sources1", split_dt)
    \/ _update_gas_sources("strang_sources1", "strang_particles")
    \/ _advance_particles("strang_particles", "strang_sources2")
    \/ _update_gas_sources("strang_sources2", "strang_gas2")
    \/ _advance_gas("strang_gas2", "strang_return", split_dt)
    \/ MacroEnd("strang_return")

\* StrangSplitter.step, one disjunct per statement
StrangBody ==
    \/ _update_gas_sources("strang_sources1", "strang_gas1")
    \/ _advance_gas("strang_gas1", "strang_particles", split_dt)
    \/ _advance_particles("strang_particles", "strang_sources2")
    \/ _update_gas_sources("strang_sources2", "strang_gas2")
    \/ _advance_gas("strang_gas2", "strang_return", split_dt)
    \/ MacroEnd("strang_return")

\* BatchReactor.step with the Strang splitter
StrangStep == MacroBegin("strang_sources1") \/ StrangBody

NextStrang == InitializeParticles \/ StrangStep \/ ParticleLoop

SpecStrang == InitReactor("STRANG") /\ [][NextStrang]_vars

(***************************************************************************)
(* Specification SpecRun: BatchReactor.run on a gas-only reactor with the  *)
(* Strang splitter.  Times are whole ticks, so the comparison              *)
(* 'time >= next_output_time - 1e-12' is 'time >= next_output_time'.       *)
(***************************************************************************)
\* int(np.ceil(a / b)) for positive a and b
Ceil(a, b) == (a + b - 1) \div b

\* the sequence s with its 0-based entry idx set to v
SetAt(s, idx, v) == [s EXCEPT ![idx + 1] = v]

\* run(duration, dt, output_interval) up to the for loop: the arrays are
\* allocated and the initial state is saved
RunBegin ==
    /\ run.pc = "idle"
    /\ split_pc = "idle"
    /\ pc = "idle"
    /\ time = 0
    /\ \E duration \in 1 .. MaxTime, d \in 1 .. MaxDt + 1, output_interval \in 1 .. MaxTime + 1 :
           LET n_outputs == Ceil(duration, output_interval) + 1
           IN  run' = [pc |-> "loop", duration |-> duration, dt |-> d,
                       output_interval |-> output_interval,
                       n_steps |-> Ceil(duration, d), n_outputs |-> n_outputs,
                       i |-> 0, next_output_time |-> output_interval, output_idx |-> 1,
                       times |-> SetAt([k \in 1 .. n_outputs |-> 0], 0, time)]
    /\ UNCHANGED <<scheme, has_particles, splitting_config, volume, gas_constructed, time, gas_state,
                   particle_sources, ode_last, split_pc, split_dt, sub_steps, pc_locals>>
    /\ UNCHANGED <<ensemble_vars, solver_vars, step_vars, twin_vars, identity, callback>>

\* for i in range(n_steps): self.step(dt) is called
RunStep ==
    /\ run.pc = "loop"
    /\ run.i < run.n_steps
    /\ split_pc = "idle"
    /\ pc = "idle"
    /\ run' = [run EXCEPT !.pc = "step"]
    /\ split_dt' = run.dt
    /\ split_pc' = "strang_sources1"
    /\ sub_steps' = <<>>
    /\ initial_state' = NoState
    /\ predicted_state' = NoState
    /\ corrected_state' = NoState
    /\ corr_iter' = 0
    /\ UNCHANGED <<scheme, has_particles, splitting_config, volume, gas_constructed, time, gas_state,
                   particle_sources, ode_last>>
    /\ UNCHANGED <<ensemble_vars, solver_vars, step_vars, twin_vars, identity, callback>>

\* self.step(dt) has returned: the output check, then the next i
RunOutput ==
    /\ run.pc = "step"
    /\ split_pc = "idle"
    /\ run' = IF time >= run.next_output_time
              THEN IF run.output_idx >= run.n_outputs
                   THEN [run EXCEPT !.pc = "IndexError"]
                   ELSE [run EXCEPT !.pc = "loop",
                                    !.times = SetAt(@, run.output_idx, time),
                                    !.next_output_time = @ + run.output_interval,
                                    !.output_idx = @ + 1,
                                    !.i = @ + 1]
              ELSE [run EXCEPT !.pc = "loop", !.i = @ + 1]
    /\ UNCHANGED <<scheme, has_particles, splitting_config, volume, gas_constructed, time, gas_state,
                   particle_sources, ode_last, split_pc, split_dt, sub_steps, pc_locals>>
    /\ UNCHANGED <<ensemble_vars, solver_vars, step_vars, twin_vars, identity, callback>>

\* the loop is exhausted: the arrays are trimmed and the result is returned
RunReturn ==
    /\ run.pc = "loop"
    /\ run.i = run.n_steps
    /\ run' = [run EXCEPT !.pc = "returned", !.times = SubSeq(@, 1, run.output_idx)]
    /\ UNCHANGED <<scheme, has_particles, splitting_config, volume, gas_constructed, time, gas_state,
                   particle_sources, ode_last, split_pc, split_dt, sub_steps, pc_locals>>
    /\ UNCHANGED <<ensemble_vars, solver_vars, step_vars, twin_vars, identity, callback>>

\* BatchReactor.__init__ without a particle solver
InitRun ==
    /\ particles = <<>>
    /\ statistical_weight = WUnit
    /\ max_particles = 2
    /\ min_particles = 0
    /\ sample_volume = default_sample_volume
    /\ result = NoCall
    /\ log = <<>>
    /\ last = [op |-> "init", n |-> 0, w |-> WUnit, C |-> 0, H |-> 0, P |-> 0]
    /\ processes = {}
    /\ config = SolverConfig(TRUE, TRUE)
    /\ total_time = 0
    /\ n_events = 0
    /\ event_counts = NoEvents
    /\ deferred_size = 0
    /\ StepIdle
    /\ Untwinned
    /\ identity = NoIdentity
    /\ callback = NoCallback
    /\ SplitIdle("STRANG", FALSE, [conc : InitialGas, age : {0}])

NextRun == RunBegin \/ RunStep \/ StrangBody \/ RunOutput \/ RunReturn

SpecRun == InitRun /\ [][NextRun]_vars

\* run(duration, dt, output_interval) on a reactor whose clock has already
\* advanced: after an earlier run, or after calls of step
RunAgain ==
    /\ run.pc \in {"idle", "returned"}
    /\ split_pc = "idle"
    /\ pc = "idle"
    /\ time > 0
    /\ time <= MaxTime + 1
    /\ \E duration \in 1 .. MaxTime + 1, d \in 1 .. MaxDt + 1,
          output_interval \in 1 .. MaxTime + 1 :
           LET n_outputs == Ceil(duration, output_interval) + 1
           IN  run' = [pc |-> "loop", duration |-> duration, dt |-> d,
                       output_interval |-> output_interval,
                       n_steps |-> Ceil(duration, d), n_outputs |-> n_outputs,
                       i |-> 0, next_output_time |-> output_interval, output_idx |-> 1,
                       times |-> SetAt([k \in 1 .. n_outputs |-> 0], 0, time)]
    /\ UNCHANGED <<scheme, has_particles, splitting_config, volume, gas_constructed, time, gas_state,
                   particle_sources, ode_last, split_pc, split_dt, sub_steps, pc_locals>>
    /\ UNCHANGED <<ensemble_vars, solver_vars, step_vars, twin_vars, identity, callback>>

\* a client calls step(dt) on a reactor that is not inside run()
StepOutsideRun ==
    /\ run.pc \in {"idle", "returned"}
    /\ MacroBegin("strang_sources1")

NextRerun ==
    RunBegin \/ RunAgain \/ StepOutsideRun \/ RunStep \/ StrangBody \/ RunOutput \/ RunReturn

SpecRerun == InitRun /\ [][NextRerun]_vars

(***************************************************************************)
(* Specification SpecReset: macro steps of the Strang reactor and          *)
(* ReactorBase.reset between them.                                         *)
(***************************************************************************)
\* ReactorBase.reset: the clock is zeroed and the attached solver is initialised
\* with the reactor volume as sample volume and no initial particles; resets are
\* explored while the gas is no older than one pass to MaxTime leaves it
Reset ==
    /\ split_pc = "idle"
    /\ pc = "idle"
    /\ gas_state.age <= 2 * MaxTime
    /\ time' = 0
    /\ last' = Before("reset")
    /\ IF has_particles
       THEN /\ volume > 0
            /\ sample_volume' = volume
            /\ SetEnsemble(clear(Ensemble(particles, statistical_weight, <<>>)))
            /\ total_time' = 0
            /\ n_events' = 0
            /\ event_counts' = NoEvents
            /\ deferred_size' = _reset_deferred(clear(Ens))
       ELSE UNCHANGED <<particles, statistical_weight, log, sample_volume, total_time,
                        n_events, event_counts, deferred_size>>
    /\ UNCHANGED <<max_particles, min_particles, result, processes, config, step_vars>>
    /\ UNCHANGED <<split_config, twin_vars, identity, callback, gas_state, particle_sources, ode_last, split_pc,
                   split_dt, sub_steps, pc_locals>>

NextReset == InitializeParticles \/ StrangStep \/ ParticleLoop \/ Reset

SpecReset == InitReactor("STRANG") /\ [][NextReset]_vars

(***************************************************************************)
(* Specification SpecPC: PredictorCorrector.step                           *)
(***************************************************************************)
\* initial_state = self._gas.get_state()
PCSave ==
    /\ split_pc = "pc_save"
    /\ split_pc' = "pc_sources1"
    /\ initial_state' = get_state(gas_state)
    /\ sub_steps' = Append(sub_steps, <<"save">>)
    /\ UNCHANGED <<split_config, twin_vars, identity, callback, time, gas_state, particle_sources, ode_last, split_dt,
                   predicted_state, corrected_state, corr_iter>>
    /\ UNCHANGED <<ensemble_vars, solver_vars, step_vars>>

\* predicted_state = self._gas.get_state()
PCPredicted ==
    /\ split_pc = "pc_predicted"
    /\ split_pc' = "pc_particles"
    /\ predicted_state' = get_state(gas_state)
    /\ UNCHANGED <<split_config, twin_vars, identity, callback, time, gas_state, particle_sources, ode_last, split_dt,
                   sub_steps, initial_state, corrected_state, corr_iter>>
    /\ UNCHANGED <<ensemble_vars, solver_vars, step_vars>>

\* for i in range(max_corrector_iters): restore the initial state, or leave the loop
PCLoop ==
    /\ split_pc = "pc_loop"
    /\ pc = "idle"
    /\ IF corr_iter < splitting_config.max_corrector_iters
       THEN /\ gas_state' = restore_state(gas_state, initial_state)
            /\ sub_steps' = Append(sub_steps, <<"restore">>)
            /\ split_pc' = "pc_correct"
       ELSE /\ split_pc' = "pc_return"
            /\ UNCHANGED <<gas_state, sub_steps>>
    /\ UNCHANGED <<split_config, twin_vars, identity, callback, time, particle_sources, ode_last, split_dt, pc_locals>>
    /\ UNCHANGED <<ensemble_vars, solver_vars, step_vars>>

\* corrected_state = get_state(); break when converged, else predicted_state = corrected_state
PCCheck ==
    /\ split_pc = "pc_corrected"
    /\ corrected_state' = get_state(gas_state)
    /\ IF _check_convergence(predicted_state, corrected_state')
       THEN /\ split_pc' = "pc_return"
            /\ UNCHANGED <<predicted_state, corr_iter>>
       ELSE /\ split_pc' = "pc_loop"
            /\ predicted_state' = corrected_state'
            /\ corr_iter' = corr_iter + 1
    /\ UNCHANGED <<split_config, twin_vars, identity, callback, time, gas_state, particle_sources, ode_last, split_dt,
                   sub_steps, initial_state>>
    /\ UNCHANGED <<ensemble_vars, solver_vars, step_vars>>

PCStep ==
    \/ MacroBegin("pc_save")
    \/ PCSave
    \/ _update_gas_sources("pc_sources1", "pc_predict")
    \/ _advance_gas("pc_predict", "pc_predicted", 2 * split_dt)
    \/ PCPredicted
    \/ _advance_particles("pc_particles", "pc_sources2")
    \/ _update_gas_sources("pc_sources2", "pc_loop")
    \/ PCLoop
    \/ _advance_gas("pc_correct", "pc_corrected", 2 * split_dt)
    \/ PCCheck
    \/ MacroEnd("pc_return")

NextPC == InitializeParticles \/ PCStep \/ ParticleLoop

SpecPC == InitReactor("PREDICTOR") /\ [][NextPC]_vars

(***************************************************************************)
(* Specification SpecEnsemble: a client drives the ensemble directly       *)
(* through add_particle / remove_particle / clear, as the unit tests do.   *)
(***************************************************************************)
\* particles a client hands to add_particle
ClientParticles == {Particle(1, 0, 1, 0, 0), Particle(2, 1, 1, 2, 0)}

\* ParticleEnsemble.__init__
InitEnsemble ==
    /\ particles = <<>>
    /\ statistical_weight = WUnit
    /\ max_particles \in 1 .. MaxSize
    /\ min_particles \in 0 .. MaxSize
    /\ sample_volume \in VolumeSet
    /\ result = NoCall
    /\ log = <<>>
    /\ last = [op |-> "init", n |-> 0, w |-> WUnit, C |-> 0, H |-> 0, P |-> 0]
    /\ processes = {}
    /\ config = SolverConfig(TRUE, TRUE)
    /\ total_time = 0
    /\ n_events = 0
    /\ event_counts = NoEvents
    /\ deferred_size = 0
    /\ StepIdle
    /\ Untwinned
    /\ identity = NoIdentity
    /\ callback = NoCallback
    /\ SplitIdle("NONE", FALSE, {NoState})

AddParticle ==
    \E p \in ClientParticles :
    \E indices \in AddChoices(Ens, max_particles) :
        LET E == add_particle(Ensemble(particles, statistical_weight, <<>>),
                              max_particles, p, indices)
        IN  /\ WeightInRange(E)
            /\ SetEnsemble(E)
            /\ last' = Before("add")
            /\ result' = NoCall
            /\ UNCHANGED <<max_particles, min_particles, sample_volume, solver_vars, step_vars>>
    /\ UNCHANGED <<split_vars, twin_vars, identity, callback>>

RemoveParticle ==
    \E index \in 0 .. Len(particles) - 1 :
        LET E == remove_particle(Ensemble(particles, statistical_weight, <<>>),
                                 min_particles, index)
        IN  /\ WeightInRange(E)
            /\ SetEnsemble(E)
            /\ last' = Before("remove")
            /\ result' = NoCall
            /\ UNCHANGED <<max_particles, min_particles, sample_volume, solver_vars, step_vars>>
    /\ UNCHANGED <<split_vars, twin_vars, identity, callback>>

Clear ==
    /\ SetEnsemble(clear(Ensemble(particles, statistical_weight, <<>>)))
    /\ last' = Before("clear")
    /\ result' = NoCall
    /\ UNCHANGED <<max_particles, min_particles, sample_volume, solver_vars, step_vars>>
    /\ UNCHANGED <<split_vars, twin_vars, identity, callback>>

\* the sample_volume setter: ValueError for a value that is not positive
SetSampleVolume ==
    /\ \E value \in VolumeSet :
           IF value <= 0
           THEN /\ last' = Before("ValueError")
                /\ UNCHANGED sample_volume
           ELSE /\ last' = Before("sample_volume")
                /\ sample_volume' = value
    /\ result' = NoCall
    /\ UNCHANGED <<particles, statistical_weight, log, max_particles, min_particles,
                   solver_vars, step_vars>>
    /\ UNCHANGED <<split_vars, twin_vars, identity, callback>>

\* a client calls select_random_pair
SelectRandomPair ==
    /\ \/ /\ select_random_pair(Ens) = {}
          /\ result' = <<>>
       \/ \E pair \in select_random_pair(Ens) : result' = pair
    /\ last' = Before("select_random_pair")
    /\ UNCHANGED <<particles, statistical_weight, log, max_particles, min_particles,
                   sample_volume, solver_vars, step_vars>>
    /\ UNCHANGED <<split_vars, twin_vars, identity, callback>>

NextEnsemble ==
    AddParticle \/ RemoveParticle \/ Clear \/ SetSampleVolume \/ SelectRandomPair

SpecEnsemble == InitEnsemble /\ [][NextEnsemble]_vars

(***************************************************************************)
(* Specification SpecRelax: the coagulation-only relaxation.  The solver   *)
(* is initialised with N0 identical particles, only coagulation is         *)
(* registered and min_particles = 1; the client calls step(gas, dt) with   *)
(* dt > 0 again and again.  The clock of the model is measured from the    *)
(* entry of the current step: a coagulation-only run reads the clock only  *)
(* to compare it with the end of the step.                                 *)
(***************************************************************************)
\* the number of identical particles the relaxation starts from: every
\* coagulation of the relaxation fits under the model's event bound
N0 == MaxEvents + 1

\* Particle(n_carbon=100, n_hydrogen=50)
RelaxParticle == Particle(100, 50, 1, 0, 0)

\* SolverConfig(min_particles=1), add_process(CoagulationProcess()) and
\* initialize(initial_particles=[Particle(n_carbon=100, n_hydrogen=50)] * N0)
InitRelax ==
    /\ particles = [i \in 1 .. N0 |-> RelaxParticle]
    /\ statistical_weight = WUnit
    /\ max_particles = N0
    /\ min_particles = 1
    /\ sample_volume = default_sample_volume
    /\ result = NoCall
    /\ log = <<>>
    /\ last = [op |-> "initialize", n |-> 0, w |-> WUnit, C |-> 0, H |-> 0, P |-> 0]
    /\ processes = {"coagulation"}
    /\ config \in {SolverConfig(g, o) : g \in BOOLEAN, o \in BOOLEAN}
    /\ total_time = 0
    /\ n_events = 0
    /\ event_counts = NoEvents
    /\ deferred_size = N0
    /\ StepIdle
    /\ Untwinned
    /\ identity = NoIdentity
    /\ callback = NoCallback
    /\ SplitIdle("NONE", FALSE, {NoState})

\* a client calls step(gas, dt) with dt > 0
RelaxBegin ==
    /\ pc = "idle"
    /\ \E g \in GasSet, d \in 1 .. MaxDt :
           /\ gas' = g
           /\ dt' = d
           /\ t_end' = d
    /\ total_time' = 0
    /\ t_start' = 0
    /\ iter' = 0
    /\ step_events' = 0
    /\ exit' = "none"
    /\ pc' = "loop"
    /\ last' = Before("step")
    /\ log' = <<>>
    /\ UNCHANGED <<particles, statistical_weight, max_particles, min_particles, sample_volume,
                   result, processes, config, n_events, event_counts, deferred_size>>
    /\ UNCHANGED <<split_vars, twin_vars, identity, callback>>

NextRelax == RelaxBegin \/ StepCap \/ StepReached \/ StepZeroRate \/ StepResidual \/ StepEvent

\* the client keeps calling step and every step runs to its return; the waiting
\* time is exponentially distributed, so while the rate is positive it falls
\* inside the step again and again
SpecRelax ==
    /\ InitRelax
    /\ [][NextRelax]_vars
    /\ WF_vars(NextRelax)
    /\ SF_vars(StepEvent)

(***************************************************************************)
(* Specification SpecSurface: the surface events _do_growth and             *)
(* _do_oxidation of StochasticSolver, applied to ensembles of one or two   *)
(* particles, large and small, with and without hydrogen.                  *)
(***************************************************************************)
\* the particles the ensembles are built from
SurfaceParticles ==
    {Particle(0, 0, 1, 0, 0), Particle(1, 0, 1, 0, 0), Particle(100, 50, 1, 0, 0),
     Particle(400, 0, 1, 0, 0), Particle(400, 200, 1, 0, 0)}

\* StochasticSolver with the growth and oxidation processes, not deferred,
\* initialised with one or two particles
InitSurface ==
    /\ particles \in [1 .. 1 -> SurfaceParticles] \cup [1 .. 2 -> SurfaceParticles]
    /\ statistical_weight = WUnit
    /\ max_particles = 2
    /\ min_particles \in {0, 2}
    /\ sample_volume = default_sample_volume
    /\ result = NoCall
    /\ log = <<>>
    /\ last = [op |-> "initialize", n |-> 0, w |-> WUnit, C |-> 0, H |-> 0, P |-> 0]
    /\ processes = {"growth", "oxidation"}
    /\ config = SolverConfig(FALSE, FALSE)
    /\ total_time = 0
    /\ n_events = 0
    /\ event_counts = NoEvents
    /\ deferred_size = Len(particles)
    /\ StepIdle
    /\ Untwinned
    /\ identity = NoIdentity
    /\ callback = NoCallback
    /\ SplitIdle("NONE", FALSE, {NoState})

\* _do_oxidation(gas), as _perform_event calls it; the model keeps the gas argument
DoOxidation ==
    /\ n_events < MaxEvents
    /\ \E g \in GasSet :
       \E out \in _do_oxidation(Ensemble(particles, statistical_weight, <<>>),
                                processes, g, min_particles) :
           /\ WeightInRange(out.E)
           /\ SetEnsemble(out.E)
           /\ gas' = g
           /\ deferred_size' = IF out.reset THEN _reset_deferred(out.E) ELSE deferred_size
           /\ n_events' = IF out.fired THEN n_events + 1 ELSE n_events
           /\ event_counts' = IF out.fired
                              THEN [event_counts EXCEPT !["OXIDATION"] = @ + 1]
                              ELSE event_counts
           /\ last' = Before(IF out.fired THEN "OXIDATION" ELSE "NONE")
    /\ UNCHANGED <<max_particles, min_particles, sample_volume, result, processes, config,
                   total_time, pc, dt, t_start, t_end, iter, step_events, exit>>
    /\ UNCHANGED <<split_vars, twin_vars, identity, callback>>

\* _do_growth(gas), as _perform_event calls it
DoGrowth ==
    /\ n_events < MaxEvents
    /\ \E g \in GasSet :
       \E out \in _do_growth(Ensemble(particles, statistical_weight, <<>>), processes, g) :
           /\ SetEnsemble(out.E)
           /\ gas' = g
           /\ n_events' = IF out.fired THEN n_events + 1 ELSE n_events
           /\ event_counts' = IF out.fired
                              THEN [event_counts EXCEPT !["GROWTH"] = @ + 1]
                              ELSE event_counts
           /\ last' = Before(IF out.fired THEN "GROWTH" ELSE "NONE")
    /\ UNCHANGED <<max_particles, min_particles, sample_volume, result, processes, config,
                   total_time, deferred_size, pc, dt, t_start, t_end, iter, step_events, exit>>
    /\ UNCHANGED <<split_vars, twin_vars, identity, callback>>

NextSurface == DoGrowth \/ DoOxidation

SpecSurface == InitSurface /\ [][NextSurface]_vars

(***************************************************************************)
(* The Particle objects behind the list (particles/ensemble.py,            *)
(* particles/particle.py).  The list holds references: identity[i] names   *)
(* the object at position i and particles[i] is that object's state, so    *)
(* two positions that hold one object always show the same state.          *)
(***************************************************************************)
\* the largest identity in use
MaxIdentity(ids) ==
    IF ids = <<>> THEN 0
    ELSE CHOOSE m \in {ids[i] : i \in 1 .. Len(ids)} :
             \A i \in 1 .. Len(ids) : ids[i] <= m

\* a copy that hands back the particle it was called on
copy_idSelf(id, fresh) == id

\* the object Particle.copy returns: a Particle constructed by the call
copy_id(id, fresh) == fresh

\* the objects in the list after ParticleEnsemble._double
_double_ids(ids) ==
    ids \o [i \in 1 .. Len(ids) |-> copy_id(ids[i], MaxIdentity(ids) + i)]

\* the objects in the list after ParticleEnsemble.remove_particle(index)
remove_particle_ids(ids, minp, index) ==
    LET rest == Pop(ids, index)
    IN  IF Len(rest) < minp /\ Len(rest) > 0 THEN _double_ids(rest) ELSE rest

\* the list after the object at index idx has been brought to state p
Written(ps, ids, idx, p) ==
    [i \in 1 .. Len(ps) |-> IF ids[i] = ids[idx + 1] THEN p ELSE ps[i]]

CopyParticles ==
    {Particle(1, 0, 1, 0, 0), Particle(100, 50, 1, 0, 0), Particle(400, 200, 1, 0, 0)}

\* an ensemble of one to three distinct Particle objects
InitCopy ==
    /\ particles \in UNION {[1 .. n -> CopyParticles] : n \in 1 .. 3}
    /\ identity = [i \in 1 .. Len(particles) |-> i]
    /\ callback = NoCallback
    /\ statistical_weight = WUnit
    /\ max_particles = 4
    /\ min_particles \in {0, 2, 3}
    /\ sample_volume = default_sample_volume
    /\ result = NoCall
    /\ log = <<>>
    /\ last = [op |-> "initialize", n |-> 0, w |-> WUnit, C |-> 0, H |-> 0, P |-> 0]
    /\ processes = {"growth", "oxidation"}
    /\ config = SolverConfig(FALSE, FALSE)
    /\ total_time = 0
    /\ n_events = 0
    /\ event_counts = NoEvents
    /\ deferred_size = Len(particles)
    /\ StepIdle
    /\ Untwinned
    /\ SplitIdle("NONE", FALSE, {NoState})

\* StochasticSolver._do_growth on the objects of the list
GrowObject ==
    /\ n_events < MaxEvents
    /\ "growth" \in processes
    /\ \E g \in GasSet :
       LET E == Ensemble(particles, statistical_weight, log)
           weights == [i \in 1 .. n_particles(E) |-> carbon_addition_rate(g, particles[i])]
       IN  \E idx \in select_weighted(E, weights) :
               /\ particles' = Written(particles, identity, idx,
                                       AddAtoms(E, idx, 2, 1).particles[idx + 1])
               /\ gas' = g
    /\ n_events' = n_events + 1
    /\ event_counts' = [event_counts EXCEPT !["GROWTH"] = @ + 1]
    /\ last' = Before("GROWTH")
    /\ UNCHANGED <<statistical_weight, log, identity, callback, deferred_size>>
    /\ UNCHANGED <<max_particles, min_particles, sample_volume, result, processes, config,
                   total_time, pc, dt, t_start, t_end, iter, step_events, exit>>
    /\ UNCHANGED <<split_vars, twin_vars>>

\* StochasticSolver._do_oxidation on the objects of the list
OxidiseObject ==
    /\ n_events < MaxEvents
    /\ "oxidation" \in processes
    /\ \E g \in GasSet :
       LET E == Ensemble(particles, statistical_weight, log)
           weights == [i \in 1 .. n_particles(E) |-> carbon_removal_rate(g, particles[i])]
       IN  \E idx \in select_weighted(E, weights) :
           LET particle == particles[idx + 1]
               n_remove == Max(1, particle.n_carbon \div 100)
               burnt == remove_hydrogen(remove_carbon(particle, n_remove).particle,
                                        n_remove \div 4).particle
               E1 == Ensemble(Written(particles, identity, idx, burnt),
                              statistical_weight, log)
               E2 == IF burnt.n_carbon <= 0
                     THEN remove_particle(E1, min_particles, idx)
                     ELSE E1
           IN  /\ WeightInRange(E2)
               /\ SetEnsemble(E2)
               /\ identity' = IF burnt.n_carbon <= 0
                              THEN remove_particle_ids(identity, min_particles, idx)
                              ELSE identity
               /\ deferred_size' = IF burnt.n_carbon <= 0
                                   THEN _reset_deferred(E2)
                                   ELSE deferred_size
               /\ gas' = g
    /\ n_events' = n_events + 1
    /\ event_counts' = [event_counts EXCEPT !["OXIDATION"] = @ + 1]
    /\ last' = Before("OXIDATION")
    /\ UNCHANGED <<max_particles, min_particles, sample_volume, result, processes, config,
                   total_time, pc, dt, t_start, t_end, iter, step_events, exit>>
    /\ UNCHANGED <<split_vars, twin_vars, callback>>

NextCopy == GrowObject \/ OxidiseObject

SpecCopy == InitCopy /\ [][NextCopy]_vars

(***************************************************************************)
(* ParticleSystem (src/particle_system.py).  Under SpecSystem the variable *)
(* particles is ParticleSystem.particles, a list of dicts; mass is counted *)
(* in units of the lightest particle added, and the diameter and radius,   *)
(* which are computed from the mass, are left out.                         *)
(***************************************************************************)
SystemParticle(id, n, m) ==
    [id |-> id, num_atoms |-> n, mass |-> m]

\* ParticleSystem.perform_coagulation with the pair (idx1, idx2) drawn by
\* np.random.choice(len(self.particles), size=2, replace=False)
perform_coagulation(ps, idx1, idx2) ==
    LET p1 == ps[idx1 + 1]
        p2 == ps[idx2 + 1]
        merged == [ps EXCEPT ![idx1 + 1].mass = p1.mass + p2.mass,
                             ![idx1 + 1].num_atoms = p1.num_atoms + p2.num_atoms]
        popped == Pop(merged, Max(idx1, idx2))
    IN  IF idx1 > idx2 THEN Pop(popped, idx2) ELSE popped

SystemIdle(op) ==
    /\ last' = [op |-> op, n |-> Len(particles), w |-> WUnit, C |-> 0, H |-> 0, P |-> 0]
    /\ UNCHANGED <<statistical_weight, max_particles, min_particles, sample_volume, result, log>>
    /\ UNCHANGED <<solver_vars, step_vars, split_vars, twin_vars, identity, callback>>

\* ParticleSystem()
InitSystem ==
    /\ particles = <<>>
    /\ statistical_weight = WUnit
    /\ max_particles = MaxSize
    /\ min_particles = 0
    /\ sample_volume = default_sample_volume
    /\ result = NoCall
    /\ log = <<>>
    /\ last = [op |-> "init", n |-> 0, w |-> WUnit, C |-> 0, H |-> 0, P |-> 0]
    /\ processes = {}
    /\ config = SolverConfig(FALSE, FALSE)
    /\ total_time = 0
    /\ n_events = 0
    /\ event_counts = NoEvents
    /\ deferred_size = 0
    /\ StepIdle
    /\ Untwinned
    /\ identity = NoIdentity
    /\ callback = NoCallback
    /\ SplitIdle("NONE", FALSE, {NoState})

\* ParticleSystem.add_particle(num_atoms, mass, diameter)
SystemAddParticle ==
    /\ Len(particles) < MaxSize
    /\ \E n \in 1 .. MaxAtoms, m \in 1 .. 2 :
           /\ SumSeq(particles, "num_atoms") + n <= MaxSize * MaxAtoms
           /\ SumSeq(particles, "mass") + m <= MaxSize * 2
           /\ particles' = Append(particles, SystemParticle(Len(particles), n, m))
    /\ SystemIdle("add_particle")

\* ParticleSystem.perform_coagulation()
PerformCoagulation ==
    /\ IF Len(particles) < 2
       THEN UNCHANGED particles
       ELSE \E idx1, idx2 \in 0 .. Len(particles) - 1 :
                /\ idx1 # idx2
                /\ particles' = perform_coagulation(particles, idx1, idx2)
    /\ SystemIdle("perform_coagulation")

NextSystem == SystemAddParticle \/ PerformCoagulation

SpecSystem == InitSystem /\ [][NextSystem]_vars

(***************************************************************************)
(* Specification SpecParticle: a client holds two particles p1 and p2 (in  *)
(* the variable particles, outside any ensemble's bookkeeping) and calls   *)
(* their methods, as the unit tests of Particle do.                        *)
(***************************************************************************)
\* the particles a test constructs (Particle.__post_init__ accepts them)
ParticleSet ==
    {Particle(c, h, 1, a, t) : c \in 0 .. MaxAtoms, h \in 0 .. MaxAtoms,
                               a \in 0 .. 1, t \in 0 .. MaxTime}

InitParticle ==
    /\ particles \in [1 .. 2 -> ParticleSet]
    /\ statistical_weight = WUnit
    /\ max_particles = 1
    /\ min_particles = 0
    /\ sample_volume = default_sample_volume
    /\ result = NoCall
    /\ log = <<>>
    /\ last = [op |-> "init", n |-> 2, w |-> WUnit, C |-> 0, H |-> 0, P |-> 0]
    /\ processes = {}
    /\ config = SolverConfig(TRUE, TRUE)
    /\ total_time = 0
    /\ n_events = 0
    /\ event_counts = NoEvents
    /\ deferred_size = 0
    /\ StepIdle
    /\ Untwinned
    /\ identity = NoIdentity
    /\ callback = NoCallback
    /\ SplitIdle("NONE", FALSE, {NoState})

\* p3 = p1.coagulate(p2) and p4 = p2.coagulate(p1): the method assigns no field of
\* self or other
Coagulate ==
    /\ result' = <<coagulate(particles[1], particles[2]),
                   coagulate(particles[2], particles[1])>>
    /\ last' = Before("coagulate")
    /\ UNCHANGED <<particles, statistical_weight, log, max_particles, min_particles,
                   sample_volume, solver_vars, step_vars>>
    /\ UNCHANGED <<split_vars, twin_vars, identity, callback>>

\* particles[i].remove_carbon(n)
RemoveCarbon ==
    /\ \E i \in 1 .. 2 : \E n \in 0 .. MaxAtoms + 1 :
           LET r == remove_carbon(particles[i], n)
           IN  /\ particles' = [particles EXCEPT ![i] = r.particle]
               /\ result' = <<i, n, r.returned>>
    /\ last' = Before("remove_carbon")
    /\ UNCHANGED <<statistical_weight, log, max_particles, min_particles,
                   sample_volume, solver_vars, step_vars>>
    /\ UNCHANGED <<split_vars, twin_vars, identity, callback>>

\* particles[i].remove_hydrogen(n)
RemoveHydrogen ==
    /\ \E i \in 1 .. 2 : \E n \in 0 .. MaxAtoms + 1 :
           LET r == remove_hydrogen(particles[i], n)
           IN  /\ particles' = [particles EXCEPT ![i] = r.particle]
               /\ result' = <<i, n, r.returned>>
    /\ last' = Before("remove_hydrogen")
    /\ UNCHANGED <<statistical_weight, log, max_particles, min_particles,
                   sample_volume, solver_vars, step_vars>>
    /\ UNCHANGED <<split_vars, twin_vars, identity, callback>>

NextParticle == Coagulate \/ RemoveCarbon \/ RemoveHydrogen

SpecParticle == InitParticle /\ [][NextParticle]_vars

(***************************************************************************)
(* C1  Halving preserves number density exactly: whenever add_particle     *)
(* pushes the size above max_particles and the ensemble is halved,         *)
(* |E| * w immediately after the halving equals |E| * w immediately before *)
(* it (the size before the halving is the size before the add plus one).   *)
(***************************************************************************)
C1_HalvingPreservesDensity ==
    (last.op = "add" /\ log # <<>>) =>
        Len(particles) * statistical_weight = (last.n + 1) * last.w

(***************************************************************************)
(* C2  Doubling preserves number density exactly: whenever remove_particle *)
(* leaves a size n with 0 < n < min_particles, the ensemble has size 2n    *)
(* and weight w/2 afterwards, so |E| * w is what it was right after the    *)
(* removal; removing the last particle never doubles.                      *)
(***************************************************************************)
C2_DoublingPreservesDensity ==
    last.op = "remove" =>
        LET n == last.n - 1
        IN  /\ (0 < n /\ n < min_particles) =>
                  /\ Len(particles) = 2 * n
                  /\ 2 * statistical_weight = last.w
                  /\ Len(particles) * statistical_weight = n * last.w
                  /\ log = << <<"Doubled", 2 * n>> >>
            /\ n = 0 =>
                  /\ particles = <<>>
                  /\ statistical_weight = last.w
                  /\ log = <<>>

C2_Witness ==
    /\ last.op = "remove"
    /\ last.n - 1 > 0
    /\ last.n - 1 < min_particles
    /\ Len(particles) = 2 * (last.n - 1)
    /\ log # <<>>

(***************************************************************************)
(* Totals of the population held in the variables, times WUnit             *)
(***************************************************************************)
WeightedTotal(field) == SumSeq(particles, field) * statistical_weight

\* no doubling and no halving can trigger during a coagulation on n particles
NoResizeInCoagulation(n) ==
    /\ n - 2 >= min_particles \/ (n = 2 /\ min_particles <= 1)
    /\ n - 1 <= max_particles

(***************************************************************************)
(* C3  (as claimed) Every performed coagulation event decreases |E| by     *)
(* exactly 1, for every ensemble with |E| >= 2 and every min_particles /   *)
(* max_particles.                                                          *)
(***************************************************************************)
C3_CoagulationDecrementsSize ==
    last.op = "COAGULATION" => Len(particles) = last.n - 1

\* the size remove_particle leaves of n particles, the doubling included
SizeAfterRemove(n) ==
    IF 0 < n - 1 /\ n - 1 < min_particles THEN 2 * (n - 1) ELSE n - 1

\* the size add_particle leaves of n particles, the halving included
SizeAfterAdd(n) ==
    IF n + 1 > max_particles THEN (n + 1) - ((n + 1) \div 2) ELSE n + 1

(***************************************************************************)
(* C3  (amended) A performed coagulation event on |E| >= 2 particles       *)
(* leaves the size that two removals and one append leave under size       *)
(* control: each removal doubles a size left in 0 < n < min_particles, the *)
(* append halves a size above max_particles.  It decreases |E| by exactly  *)
(* 1, keeps the weight and writes no Doubled / Halved line whenever size   *)
(* control cannot trigger during it: |E| - 2 >= min_particles (or |E| = 2  *)
(* with min_particles <= 1) and |E| - 1 <= max_particles.                  *)
(***************************************************************************)
C3_CoagulationSizeUnderControl ==
    last.op = "COAGULATION" =>
        /\ last.n >= 2
        /\ Len(particles) = SizeAfterAdd(SizeAfterRemove(SizeAfterRemove(last.n)))
        /\ NoResizeInCoagulation(last.n) =>
               /\ Len(particles) = last.n - 1
               /\ statistical_weight = last.w
               /\ log = <<>>

C3_Witness ==
    /\ last.op = "COAGULATION"
    /\ NoResizeInCoagulation(last.n)
    /\ last.n >= 2
    /\ Len(particles) = last.n - 1

(***************************************************************************)
(* C4  A coagulation event conserves the population's atoms: the totals of *)
(* n_carbon, n_hydrogen and n_primary, scaled by the statistical weight,   *)
(* are equal before and after the event, also when a removal doubles the   *)
(* ensemble in the middle of the event.                                    *)
(***************************************************************************)
C4_CoagulationConservesAtoms ==
    last.op = "COAGULATION" =>
        /\ WeightedTotal("n_carbon") = last.C
        /\ WeightedTotal("n_hydrogen") = last.H
        /\ WeightedTotal("n_primary") = last.P

(***************************************************************************)
(* C5  (as claimed) Every nucleation event increases |E| by exactly 1.     *)
(***************************************************************************)
C5_NucleationIncrementsSize ==
    last.op = "NUCLEATION" => Len(particles) = last.n + 1

(***************************************************************************)
(* C5  (amended) A nucleation event increases |E| by exactly 1 whenever    *)
(* |E| < max_particles before it; otherwise the append triggers a halving  *)
(* and leaves |E| + 1 - floor((|E| + 1) / 2) particles with doubled weight.*)
(***************************************************************************)
C5_NucleationIncrementsSizeBelowMax ==
    last.op = "NUCLEATION" =>
        IF last.n < max_particles
        THEN Len(particles) = last.n + 1 /\ statistical_weight = last.w
        ELSE /\ Len(particles) = (last.n + 1) - ((last.n + 1) \div 2)
             /\ statistical_weight = 2 * last.w

C5_Witness ==
    /\ last.op = "NUCLEATION"
    /\ last.n < max_particles
    /\ last.n >= 1
    /\ Len(particles) = last.n + 1

(***************************************************************************)
(* C6  When step(gas, dt) with dt > 0 returns, the solver clock equals     *)
(* t_start + dt, in every exit path.                                       *)
(***************************************************************************)
C6_StepReachesEnd ==
    (pc = "idle" /\ exit # "none" /\ dt > 0) => total_time = t_start + dt

(***************************************************************************)
(* C7  When deferment is enabled for growth (resp. oxidation), no discrete *)
(* growth (resp. oxidation) event is ever performed.                       *)
(***************************************************************************)
C7_DeferredNotSampled ==
    /\ config.defer_growth => event_counts["GROWTH"] = 0
    /\ config.defer_oxidation => event_counts["OXIDATION"] = 0

(***************************************************************************)
(* C8  When a step ends on its residual, the deferred pass visits every    *)
(* particle once: with deferment enabled it adds floor(rate_i * residual)  *)
(* carbon atoms for growth and removes floor(rate_i * residual) carbon     *)
(* atoms for oxidation (stated for the particles that hold that many).     *)
(***************************************************************************)
DeferredGrowth(p, d) ==
    IF config.defer_growth /\ "growth" \in processes
    THEN (carbon_addition_rate(gas, p) * d) \div RateScale ELSE 0

DeferredOxidation(p, d) ==
    IF config.defer_oxidation /\ "oxidation" \in processes
    THEN (carbon_removal_rate(gas, p) * d) \div RateScale ELSE 0

C8_DeferredPass ==
    [][(pc = "loop" /\ pc' = "idle" /\ exit' = "residual") =>
          /\ Len(particles') = Len(particles)
          /\ \A k \in 1 .. Len(particles) :
                LET p == particles[k]
                    d == t_end - total_time
                IN  DeferredOxidation(p, d) <= p.n_carbon + DeferredGrowth(p, d) =>
                        particles'[k].n_carbon =
                            p.n_carbon + DeferredGrowth(p, d) - DeferredOxidation(p, d)]_vars

(***************************************************************************)
(* Sub-step sequences of the splitting schemes, gas advances in half ticks *)
(***************************************************************************)
IsPrefix(s, t) == Len(s) <= Len(t) /\ s = SubSeq(t, 1, Len(s))

StrangAsClaimed(d) ==
    << <<"gas", d>>, <<"sources">>, <<"particles", 2 * d>>, <<"sources">>, <<"gas", d>> >>

StrangSequence(d) ==
    << <<"sources">>, <<"gas", d>>, <<"particles", 2 * d>>, <<"sources">>, <<"gas", d>> >>

(***************************************************************************)
(* C9  (as claimed) One Strang macro step performs exactly the sequence    *)
(* gas(dt/2), refresh sources, particles(dt), refresh sources, gas(dt/2).  *)
(***************************************************************************)
C9_StrangSequenceAsClaimed ==
    split_pc = "strang_return" => sub_steps = StrangAsClaimed(split_dt)

(***************************************************************************)
(* C9  (amended) One Strang macro step performs exactly the sequence       *)
(* refresh sources, gas(dt/2), particles(dt), refresh sources, gas(dt/2),  *)
(* in this order: the sources are refreshed before the first half step and *)
(* not between it and the particle step; the last half step integrates     *)
(* with the sources refreshed after the particle step.                     *)
(***************************************************************************)
C9_StrangSequence ==
    /\ (scheme = "STRANG" /\ split_pc # "idle") =>
           IsPrefix(sub_steps, StrangSequence(split_dt))
    /\ split_pc = "strang_return" =>
           /\ sub_steps = StrangSequence(split_dt)
           /\ ode_last.sources = particle_sources
           /\ ode_last.dt = split_dt
           /\ ode_last.to = gas_state

C9_Witness ==
    /\ split_pc = "strang_return"
    /\ has_particles
    /\ step_events > 0
    /\ Len(sub_steps) = 5

(***************************************************************************)
(* C10  One predictor-corrector macro step executes, in order: snapshot    *)
(* G0, refresh sources, gas(dt) giving G_p, particles(dt) reading the      *)
(* predicted gas, refresh sources, then for each corrector iteration       *)
(* restore G0 followed by gas(dt); every corrector gas advance starts from *)
(* G0, so at the end of the step the gas has been advanced by a net dt     *)
(* from G0.                                                                *)
(***************************************************************************)
RECURSIVE Correctors(_, _)
Correctors(k, d) ==
    IF k = 0 THEN <<>> ELSE << <<"restore">>, <<"gas", 2 * d>> >> \o Correctors(k - 1, d)

PCSequence(k, d) ==
    << <<"save">>, <<"sources">>, <<"gas", 2 * d>>, <<"particles", 2 * d>>, <<"sources">> >>
    \o Correctors(k, d)

C10_PredictorCorrectorSequence ==
    /\ (scheme = "PREDICTOR" /\ split_pc # "idle") =>
           IsPrefix(sub_steps, PCSequence(max_corrector_iters, split_dt))
    /\ (scheme = "PREDICTOR" /\ pc = "loop") => gas = predicted_state.conc
    /\ split_pc = "pc_corrected" =>
           /\ ode_last.from = initial_state
           /\ ode_last.dt = 2 * split_dt
    /\ split_pc = "pc_return" =>
           /\ \E k \in 0 .. max_corrector_iters : sub_steps = PCSequence(k, split_dt)
           /\ ode_last.from = initial_state
           /\ ode_last.to = gas_state
           /\ gas_state.age = initial_state.age + 2 * split_dt

C10_Witness ==
    /\ split_pc = "pc_return"
    /\ has_particles
    /\ step_events > 0
    /\ corr_iter = 1
    /\ sub_steps = PCSequence(2, split_dt)

(***************************************************************************)
(* C11  The corrector loop of a predictor-corrector step terminates after  *)
(* at most max_corrector_iters iterations: it stops at the first iteration *)
(* whose corrected gas is within corrector_tol of the predicted gas        *)
(* (max-abs over the composition), otherwise the corrected gas becomes the *)
(* predicted one and the loop repeats; when no iteration converges the     *)
(* step still completes, and in both cases the gas the step leaves is the  *)
(* last iteration's.                                                       *)
(***************************************************************************)
\* the corrector iterations the current macro step has run
CorrectorsRun == Cardinality({i \in 1 .. Len(sub_steps) : sub_steps[i] = <<"restore">>})

\* the claim's criterion: every component within corrector_tol
WithinTol(Gp, Gc) ==
    /\ Abs(Gc.conc.A4 - Gp.conc.A4) <= corrector_tol
    /\ Abs(Gc.conc.C2H2 - Gp.conc.C2H2) <= corrector_tol
    /\ Abs(Gc.conc.O2 - Gp.conc.O2) <= corrector_tol
    /\ Abs(Gc.conc.OH - Gp.conc.OH) <= corrector_tol

ensemble_rngUnseeded(s) == "None"

\* ParticleEnsemble.__init__: self._rng = default_rng(seed), with seed = config.seed
ensemble_rng(s) == s

\* StochasticSolver.__init__: self._rng = default_rng(self._config.seed)
solver_rng(s) == s

\* two generators that produce the same stream
SameStream(s1, s2) == s1 # "None" /\ s1 = s2

\* the first solver, as the model keeps the second
Solver1 ==
    [particles |-> particles, statistical_weight |-> statistical_weight,
     total_time |-> total_time, n_events |-> n_events, event_counts |-> event_counts,
     event |-> last.op, queried |-> FALSE]

\* the two solvers have made the same draws so far
InSync ==
    /\ twin.particles = particles
    /\ twin.statistical_weight = statistical_weight
    /\ twin.total_time = total_time
    /\ twin.n_events = n_events
    /\ twin.event_counts = event_counts

\* the generators of the two ensembles are at the same point of their
\* streams: the second solver has drawn no pair that the first has not
EnsembleInSync == InSync /\ ~twin.queried

\* the draws one iteration of the for loop of step() makes on solver X:
\* coag is the coagulation estimate sampled by _compute_coagulation_rate, tau
\* the waiting time (-1: not drawn), kind the event _select_event returns for
\* its uniform draw ("": not drawn)
Draws(X) ==
    LET E == Ensemble(X.particles, X.statistical_weight, <<>>)
    IN  UNION {
            LET rates == compute_rates(gas, E, processes, coag)
            IN  IF total_rate(rates) <= 0
                THEN {[coag |-> coag, tau |-> -1, kind |-> ""]}
                ELSE UNION {
                        IF X.total_time + tau > t_end
                        THEN {[coag |-> coag, tau |-> tau, kind |-> ""]}
                        ELSE IF X.n_events >= MaxEvents THEN {}
                        ELSE {[coag |-> coag, tau |-> tau, kind |-> _select_event(rates, r)] :
                                 r \in 0 .. total_rate(rates) - 1}
                        : tau \in 0 .. MaxTau}
            : coag \in _compute_coagulation_rate(E, processes)}

\* the iteration of solver X that makes the draws d: the exit taken, the event
\* selected, its result and the clock afterwards
Iterations(X, d) ==
    LET E == Ensemble(X.particles, X.statistical_weight, <<>>)
        Kept(F) == [E |-> F, fired |-> FALSE, reset |-> FALSE]
    IN  IF d.tau < 0
        THEN {[exit |-> "zero_rate", kind |-> "NONE", out |-> Kept(E), time |-> t_end]}
        ELSE IF d.kind = ""
        THEN {[exit |-> "residual", kind |-> "NONE",
               out |-> Kept(_apply_deferred(E, processes, config, gas, t_end - X.total_time)),
               time |-> t_end]}
        ELSE {[exit |-> "event", kind |-> d.kind, out |-> out,
               time |-> X.total_time + d.tau] :
                 out \in _perform_event(d.kind, E, processes, gas,
                                        min_particles, max_particles, X.total_time + d.tau)}

\* the draws the second solver can make when the first makes d1: generators
\* with the same stream, asked the same questions, give the same answers (the
\* same uniform draw selects the same event when the rates are the same)
TiedDraws(d1, d2) ==
    /\ (InSync /\ SameStream(solver_rng(seed), solver_rng(seed))) =>
           /\ d2.tau = d1.tau
           /\ d2.coag = d1.coag => d2.kind = d1.kind
    /\ (EnsembleInSync /\ SameStream(ensemble_rng(seed), ensemble_rng(seed))) =>
           d2.coag = d1.coag

\* the same for the indices the ensemble's generator returns inside an event
Tied(a, b) ==
    (EnsembleInSync /\ SameStream(ensemble_rng(seed), ensemble_rng(seed))
        /\ a.exit = b.exit /\ a.kind = b.kind /\ a.time = b.time) => a.out = b.out

\* solver X after the iteration d
After(X, d) ==
    [particles |-> d.out.E.particles,
     statistical_weight |-> d.out.E.statistical_weight,
     total_time |-> d.time,
     n_events |-> IF d.out.fired THEN X.n_events + 1 ELSE X.n_events,
     event_counts |-> IF d.out.fired
                      THEN [X.event_counts EXCEPT ![d.kind] = @ + 1]
                      ELSE X.event_counts,
     event |-> IF d.exit # "event" THEN d.exit
               ELSE IF d.out.fired THEN d.kind ELSE "NONE",
     queried |-> X.queried]

\* StochasticSolver.__init__ twice, with the same SolverConfig(seed=42); the
\* ensembles have no lower bound, or one equal to their capacity
InitTwin ==
    /\ particles = <<>>
    /\ statistical_weight = WUnit
    /\ max_particles \in 1 .. MaxMaxParticles
    /\ min_particles \in {0, max_particles}
    /\ sample_volume = default_sample_volume
    /\ result = NoCall
    /\ log = <<>>
    /\ last = [op |-> "init", n |-> 0, w |-> WUnit, C |-> 0, H |-> 0, P |-> 0]
    /\ \E s \in Solvers : processes = s.processes /\ config = s.config
    /\ total_time = 0
    /\ n_events = 0
    /\ event_counts = NoEvents
    /\ deferred_size = 0
    /\ pc = "idle"
    /\ gas = NoGas
    /\ dt = 0
    /\ t_start = 0
    /\ t_end = 0
    /\ iter = 0
    /\ step_events = 0
    /\ exit = "none"
    /\ SplitIdle("NONE", FALSE, {NoState})
    /\ seed = "42"
    /\ identity = NoIdentity
    /\ callback = NoCallback
    /\ twin = [NoTwin EXCEPT !.statistical_weight = WUnit, !.event = "init"]

\* initialize(initial_particles) on both solvers, with copies of the same list
TwinInitialize ==
    /\ pc = "idle"
    /\ \E ps \in InitialParticles :
       LET added2 == AddAll({clear(Ensemble(twin.particles, twin.statistical_weight, <<>>))},
                            max_particles, ps)
       IN
       \E E1 \in AddAll({clear(Ensemble(particles, statistical_weight, <<>>))},
                        max_particles, ps) :
       \E E2 \in IF EnsembleInSync /\ SameStream(ensemble_rng(seed), ensemble_rng(seed))
                 THEN {E1} \cap added2
                 ELSE added2 :
           /\ WeightInRange(E1)
           /\ WeightInRange(E2)
           /\ SetEnsemble(E1)
           /\ deferred_size' = _reset_deferred(E1)
           /\ twin' = [particles |-> E2.particles,
                       statistical_weight |-> E2.statistical_weight,
                       total_time |-> 0, n_events |-> 0, event_counts |-> NoEvents,
                       event |-> "initialize", queried |-> twin.queried]
    /\ total_time' = 0
    /\ n_events' = 0
    /\ event_counts' = NoEvents
    /\ last' = [op |-> "initialize", n |-> 0, w |-> WUnit, C |-> 0, H |-> 0, P |-> 0]
    /\ dt' = 0
    /\ t_start' = 0
    /\ step_events' = 0
    /\ exit' = "none"
    /\ UNCHANGED <<max_particles, min_particles, sample_volume, result, processes, config, pc, gas, t_end, iter>>
    /\ UNCHANGED <<split_vars, seed, identity, callback>>

\* one iteration of the for loop of step() in both solvers
TwinIterate ==
    /\ pc = "loop"
    /\ iter < MaxIterations
    /\ total_time < t_end
    /\ twin.total_time < t_end
    /\ LET draws2 == Draws(twin)
       IN
       \E d1 \in Draws(Solver1) :
       \E d2 \in {d \in draws2 : TiedDraws(d1, d)} :
       \E a \in Iterations(Solver1, d1) :
       \E b \in Iterations(twin, d2) :
           /\ Tied(a, b)
           /\ a.exit = b.exit
           /\ WeightInRange(a.out.E)
           /\ WeightInRange(b.out.E)
           /\ SetEnsemble(a.out.E)
           /\ total_time' = a.time
           /\ n_events' = After(Solver1, a).n_events
           /\ event_counts' = After(Solver1, a).event_counts
           /\ deferred_size' = IF a.out.reset THEN _reset_deferred(a.out.E) ELSE deferred_size
           /\ twin' = After(twin, b)
           /\ IF a.exit = "event"
              THEN /\ step_events' = IF a.out.fired THEN step_events + 1 ELSE step_events
                   /\ last' = Before(IF a.out.fired THEN a.kind ELSE "NONE")
                   /\ iter' = iter + 1
                   /\ UNCHANGED <<pc, gas, dt, t_start, t_end, exit>>
              ELSE Return(a.exit)
    /\ UNCHANGED <<max_particles, min_particles, sample_volume, result, processes, config>>
    /\ UNCHANGED <<split_vars, seed, identity, callback>>

\* step(gas, dt) is called on both solvers
TwinBegin ==
    /\ twin.total_time = total_time
    /\ \E g \in GasSet, d \in -1 .. MaxDt : StepEntry(g, d)
    /\ twin' = [twin EXCEPT !.event = "step"]
    /\ UNCHANGED <<split_vars, seed, identity, callback>>

\* the for loop is exhausted in both solvers
TwinCap ==
    /\ pc = "loop"
    /\ iter = MaxIterations
    /\ Return("cap")
    /\ twin' = [twin EXCEPT !.event = "cap"]
    /\ UNCHANGED <<particles, statistical_weight, log, max_particles, min_particles, sample_volume, result, solver_vars>>
    /\ UNCHANGED <<split_vars, seed, identity, callback>>

\* if self._total_time >= t_end: break, in both solvers
TwinReached ==
    /\ pc = "loop"
    /\ iter < MaxIterations
    /\ total_time >= t_end
    /\ twin.total_time >= t_end
    /\ Return("reached")
    /\ twin' = [twin EXCEPT !.event = "reached"]
    /\ UNCHANGED <<particles, statistical_weight, log, max_particles, min_particles, sample_volume, result, solver_vars>>
    /\ UNCHANGED <<split_vars, seed, identity, callback>>

NextTwin ==
    \/ TwinInitialize
    \/ TwinBegin
    \/ TwinCap
    \/ TwinReached
    \/ TwinIterate

SpecTwin == InitTwin /\ [][NextTwin]_vars

\* the pairs a query of the rates draws from the generator of ensemble E:
\* compute_rates calls _compute_coagulation_rate, and that select_random_pair,
\* when coagulation is configured and E holds two particles or more
QueryDraws(E, procs) ==
    IF "coagulation" \notin procs \/ n_particles(E) < 2
    THEN 0
    ELSE Min(100, (n_particles(E) * (n_particles(E) - 1)) \div 2)

\* between two steps the second solver is asked compute_rates(gas) or
\* get_source_terms(gas); the first is not
TwinQuery ==
    /\ pc = "idle"
    /\ twin.event # "init"
    /\ twin' = [twin EXCEPT !.queried =
                    @ \/ QueryDraws(Ensemble(twin.particles, twin.statistical_weight, <<>>),
                                    processes) > 0]
    /\ UNCHANGED <<ensemble_vars, solver_vars, step_vars>>
    /\ UNCHANGED <<split_vars, seed, identity, callback>>

\* StochasticSolver.__init__ twice, with the same SolverConfig(seed=42); the
\* ensembles hold every initial_particles list of the model without a halving
\* and have no lower bound
InitQuery ==
    /\ particles = <<>>
    /\ statistical_weight = WUnit
    /\ max_particles = MaxSize
    /\ min_particles = 0
    /\ sample_volume = default_sample_volume
    /\ result = NoCall
    /\ log = <<>>
    /\ last = [op |-> "init", n |-> 0, w |-> WUnit, C |-> 0, H |-> 0, P |-> 0]
    /\ \E s \in Solvers : processes = s.processes /\ config = s.config
    /\ total_time = 0
    /\ n_events = 0
    /\ event_counts = NoEvents
    /\ deferred_size = 0
    /\ StepIdle
    /\ SplitIdle("NONE", FALSE, {NoState})
    /\ seed = "42"
    /\ identity = NoIdentity
    /\ callback = NoCallback
    /\ twin = [NoTwin EXCEPT !.statistical_weight = WUnit, !.event = "init"]

NextQuery ==
    \/ TwinInitialize
    \/ TwinBegin
    \/ TwinCap
    \/ TwinReached
    \/ TwinIterate
    \/ TwinQuery

SpecQuery == InitQuery /\ [][NextQuery]_vars

C13_LowerSizeBound ==
    (last.op = "remove" /\ Len(particles) > 0) => Len(particles) >= min_particles

(***************************************************************************)
(* C14  Upper size bound: in every state reachable by add_particle and     *)
(* remove_particle (doublings included), the ensemble holds at most        *)
(* max_particles particles, for every configuration with                   *)
(* 1 <= min_particles <= max_particles.                                    *)
(***************************************************************************)
C14_UpperSizeBound ==
    (1 <= min_particles /\ min_particles <= max_particles) =>
        Len(particles) <= max_particles

(***************************************************************************)
(* C15  The solver clock never decreases: every transition of step(), for  *)
(* any dt (dt <= 0 included), and every event leaves total_time at least   *)
(* what it was; only initialize() sets it back, to 0.                      *)
(***************************************************************************)
C15_TimeNeverDecreases ==
    [][IF last'.op = "initialize" THEN total_time' = 0 ELSE total_time' >= total_time]_vars

\* a step() with a negative dt has returned, after the clock had advanced
C15_Witness ==
    /\ exit = "reached"
    /\ dt < 0
    /\ t_start > 0
    /\ total_time = t_start

(***************************************************************************)
(* C16  An event kind whose rate is zero never fires: with fewer than two  *)
(* particles the coagulation rate is 0 and no coagulation is performed,    *)
(* and with [A4] = 0 the nucleation rate is 0 and no nucleation is         *)
(* performed, in any iteration of any step().                              *)
(***************************************************************************)
C16_ZeroRateNeverFires ==
    pc = "loop" =>
        /\ Len(particles) < 2 => _compute_coagulation_rate(Ens, processes) = {0}
        /\ gas.A4 = 0 => \A rates \in IterRates : rates.nucleation = 0
        /\ last.op = "COAGULATION" => last.n >= 2
        /\ last.op = "NUCLEATION" => gas.A4 > 0

\* a solver with nucleation and coagulation set has performed an event on a
\* single particle in a gas without A4: a growth or an oxidation
C16_Witness ==
    /\ pc = "loop"
    /\ {"nucleation", "coagulation"} \subseteq processes
    /\ gas.A4 = 0
    /\ last.n = 1
    /\ last.op \in {"GROWTH", "OXIDATION"}

(***************************************************************************)
(* C17  select_weighted on an empty ensemble or with weights that sum to   *)
(* 0 or less returns None, and a growth or oxidation draw that gets None   *)
(* does not fire: the iteration leaves the particles, the statistical      *)
(* weight and the event counters as they were.                             *)
(***************************************************************************)
GrowthWeights ==
    [i \in 1 .. Len(particles) |-> carbon_addition_rate(gas, particles[i])]

OxidationWeights ==
    [i \in 1 .. Len(particles) |-> carbon_removal_rate(gas, particles[i])]

NoSelection(weights) == Len(particles) = 0 \/ np_sum(weights) <= 0

C17_NoSelectionNoEvent ==
    [][(pc = "loop" /\ pc' = "loop" /\ iter' = iter + 1) =>
          /\ NoSelection(GrowthWeights) =>
                 /\ select_weighted(Ens, GrowthWeights) = {}
                 /\ _do_growth(Ens, processes, gas) = {Outcome(Ens, FALSE, FALSE)}
                 /\ event_counts'["GROWTH"] = event_counts["GROWTH"]
          /\ NoSelection(OxidationWeights) =>
                 /\ select_weighted(Ens, OxidationWeights) = {}
                 /\ _do_oxidation(Ens, processes, gas, min_particles) =
                        {Outcome(Ens, FALSE, FALSE)}
                 /\ event_counts'["OXIDATION"] = event_counts["OXIDATION"]
          /\ last'.op = "NONE" =>
                 /\ particles' = particles
                 /\ statistical_weight' = statistical_weight
                 /\ n_events' = n_events
                 /\ event_counts' = event_counts
                 /\ step_events' = step_events]_vars

\* an oxidation was drawn on a non-empty ensemble whose oxidation weights are
\* all zero, and the iteration performed no event
C17_Witness ==
    /\ pc = "loop"
    /\ iter >= 1
    /\ last.op = "NONE"
    /\ last.n >= 1
    /\ "oxidation" \in processes
    /\ NoSelection(OxidationWeights)
    /\ n_events = 0

(***************************************************************************)
(* C18  Silent zero: when a species a process needs is absent from the gas *)
(* (the lookup raises KeyError), the rate of the process is 0, for         *)
(* oxidation the absent oxidiser contributes 0 and the other one counts,   *)
(* and compute_rates, step and get_source_terms go on normally.            *)
(***************************************************************************)
SurfaceTotal == SumSeq(particles, "n_carbon")

C18_SilentZero ==
    (pc = "loop" /\ gas.absent # {}) =>
        /\ \A rates \in IterRates :
              /\ "A4" \in gas.absent => rates.nucleation = 0
              /\ "C2H2" \in gas.absent => rates.growth = 0
              /\ ("O2" \in gas.absent /\ "OH" \notin gas.absent) =>
                     rates.oxidation =
                         IF "oxidation" \in processes THEN gas.OH * SurfaceTotal ELSE 0
        /\ "A4" \in gas.absent =>
               \A k \in DOMAIN get_source_terms(gas, Ens, processes) :
                   k = "A4" => get_source_terms(gas, Ens, processes)[k] = 0
        /\ ENABLED (StepCap \/ StepReached \/ StepZeroRate \/ StepResidual \/ StepEvent)

\* with A4, C2H2 and O2 absent from the gas, step() has performed an
\* oxidation by OH
C18_Witness ==
    /\ pc = "loop"
    /\ {"A4", "C2H2", "O2"} \subseteq gas.absent
    /\ processes = ProcessNames
    /\ last.op = "OXIDATION"

(***************************************************************************)
(* C19  Every step() terminates: each transition of the loop begins a new  *)
(* iteration or returns, there are at most MaxIterations (10,000 in the    *)
(* source) iterations, and when they are used up step() returns normally   *)
(* with the ensemble and the counters as the events performed left them:   *)
(* n_events has grown by the value returned, and the per-kind counters add *)
(* up to n_events.  The next step() can be called.                         *)
(***************************************************************************)
CountsTotal(counts) ==
    counts["NUCLEATION"] + counts["GROWTH"] + counts["COAGULATION"] + counts["OXIDATION"]
        + counts["NONE"]

C19_StepTerminates ==
    [][/\ iter' <= MaxIterations
       /\ CountsTotal(event_counts') = n_events'
       /\ pc = "loop" =>
              /\ \/ pc' = "loop" /\ iter' = iter + 1
                 \/ pc' = "idle"
              /\ n_events' - n_events = step_events' - step_events
       /\ (pc = "loop" /\ iter = MaxIterations) =>
              /\ pc' = "idle"
              /\ exit' = "cap"
              /\ particles' = particles
              /\ statistical_weight' = statistical_weight
       /\ (exit = "cap" /\ pc = "idle") => ENABLED StepBegin]_vars

\* step() has used up its iterations and returned, having performed events
C19_Witness ==
    /\ pc = "idle"
    /\ exit = "cap"
    /\ step_events = MaxIterations
    /\ n_events = step_events

C21_SampleVolumePositive == sample_volume > 0

(***************************************************************************)
(* C22  select_random_pair returns two distinct indices, each in           *)
(* [0, |E|), whenever |E| >= 2, for every outcome of the two draws; with   *)
(* |E| < 2 it returns None; the ensemble is as it was.                     *)
(***************************************************************************)
C22_PairDistinctInRange ==
    last.op = "select_random_pair" =>
        /\ Len(particles) = last.n
        /\ statistical_weight = last.w
        /\ IF last.n < 2
           THEN result = <<>>
           ELSE /\ Len(result) = 2
                /\ result[1] \in 0 .. last.n - 1
                /\ result[2] \in 0 .. last.n - 1
                /\ result[1] # result[2]

\* the second index is the largest one: the draw landed on or after idx1
\* and was moved up by one
C22_Witness ==
    /\ last.op = "select_random_pair"
    /\ last.n = 3
    /\ result = <<1, 2>>

(***************************************************************************)
(* C23: coagulate(p1, p2) returns a new particle whose carbon, hydrogen,   *)
(* primary-particle and active-site counts are the sums of the parents'    *)
(* and whose creation time is the earlier of the parents'; neither parent  *)
(* is modified; p1.coagulate(p2) and p2.coagulate(p1) are the same         *)
(* particle.                                                               *)
(***************************************************************************)
SumOfParents(new, p1, p2) ==
    /\ new.n_carbon = p1.n_carbon + p2.n_carbon
    /\ new.n_hydrogen = p1.n_hydrogen + p2.n_hydrogen
    /\ new.n_primary = p1.n_primary + p2.n_primary
    /\ new.active_sites = p1.active_sites + p2.active_sites
    /\ new.creation_time <= p1.creation_time
    /\ new.creation_time <= p2.creation_time
    /\ new.creation_time \in {p1.creation_time, p2.creation_time}

C23_CoagulateSums ==
    [][last'.op = "coagulate" =>
          /\ SumOfParents(result'[1], particles[1], particles[2])
          /\ result'[2] = result'[1]
          /\ particles' = particles]_vars

C23_Witness ==
    /\ last.op = "coagulate"
    /\ particles[1].creation_time < particles[2].creation_time
    /\ particles[1].n_carbon = 1 /\ particles[2].n_carbon = 2
    /\ particles[1].active_sites = 1
    /\ result[1].n_carbon = 3

(***************************************************************************)
(* C24: remove_carbon(n) on a particle with fewer than n carbon atoms      *)
(* returns False and leaves the particle unchanged; with at least n it     *)
(* returns True and lowers n_carbon by exactly n, touching no other field. *)
(* remove_hydrogen does the same with n_hydrogen.                          *)
(***************************************************************************)
RemovedExactly(field) ==
    LET i == result'[1]
        n == result'[2]
    IN  IF particles[i][field] < n
        THEN /\ result'[3] = FALSE
             /\ particles' = particles
        ELSE /\ result'[3] = TRUE
             /\ particles' = [particles EXCEPT ![i][field] = @ - n]

C24_RemoveAllOrNothing ==
    [][/\ last'.op = "remove_carbon" => RemovedExactly("n_carbon")
       /\ last'.op = "remove_hydrogen" => RemovedExactly("n_hydrogen")]_vars

C24_Witness ==
    /\ last.op = "remove_carbon"
    /\ last.C = 3 * WUnit
    /\ result = <<1, 2, FALSE>>
    /\ particles[1].n_carbon = 1

EngineStep == pc = "loop" \/ pc' = "loop"

SourcesStep ==
    /\ Len(sub_steps') = Len(sub_steps) + 1
    /\ sub_steps'[Len(sub_steps')][1] \in {"sources", "particles"}

C26_GasOnlyRead ==
    [][/\ (EngineStep \/ SourcesStep) => gas_state' = gas_state
       /\ (pc = "idle" /\ pc' = "loop") => gas' = gas_state.conc
       /\ (pc = "loop" /\ pc' = "loop") => gas' = gas
       /\ (pc = "loop" /\ pc' = "idle") => gas = gas_state'.conc]_vars

C26_Witness ==
    /\ exit \in {"reached", "residual"}
    /\ step_events > 0
    /\ gas_state.conc = Gas(1, 1, 1, 0, {})
    /\ particle_sources # <<>>
    /\ split_pc # "idle"

(***************************************************************************)
(* C27: for every run(duration, dt, output_interval) with positive         *)
(* arguments started at reactor time 0, the snapshot times returned start  *)
(* at 0, are strictly increasing, and the last of them is at least         *)
(* duration.                                                               *)
(***************************************************************************)
C27_SnapshotTimes ==
    run.pc = "returned" =>
        /\ Len(run.times) >= 1
        /\ run.times[1] = 0
        /\ \A k \in 1 .. Len(run.times) - 1 : run.times[k] < run.times[k + 1]
        /\ run.times[Len(run.times)] >= run.duration

(***************************************************************************)
(* C28: when the integrator reports failure for a gas sub-step, the ODE    *)
(* driver does not raise: the gas is set to the last state the integrator  *)
(* produced and the macro step goes on to its next statement.              *)
(***************************************************************************)
GasSubStep ==
    /\ Len(sub_steps') = Len(sub_steps) + 1
    /\ sub_steps'[Len(sub_steps')][1] = "gas"

C28_FailureIsNotFatal ==
    [][(GasSubStep /\ ~ode_last'.success) =>
          /\ gas_state' = ode_last'.to
          /\ split_pc = "strang_gas1" => split_pc' = "strang_particles"
          /\ split_pc = "strang_gas2" => split_pc' = "strang_return"]_vars

C28_Witness ==
    /\ run.pc = "step"
    /\ split_pc = "strang_return"
    /\ ~ode_last.success
    /\ gas_state = ode_last.to
    /\ gas_state # ode_last.from

(***************************************************************************)
(* C30: reset() returns the reactor to its initial state: the reactor time *)
(* is 0, the engine clock and the event counters are 0, the ensemble holds *)
(* what it held initially (nothing) with statistical weight 1 and the      *)
(* sample volume it was configured with, and the gas is in the state the   *)
(* reactor was constructed with.                                           *)
(***************************************************************************)
ResetStep ==
    /\ last'.op = "reset"
    /\ split_pc = "idle" /\ split_pc' = "idle"
    /\ pc = "idle" /\ pc' = "idle"

C30_ResetRestoresInitialState ==
    [][ResetStep =>
          /\ time' = 0
          /\ total_time' = 0
          /\ n_events' = 0
          /\ event_counts' = NoEvents
          /\ particles' = <<>>
          /\ statistical_weight' = WUnit
          /\ sample_volume' = default_sample_volume
          /\ gas_state'.conc = gas_constructed.conc]_vars

(***************************************************************************)
(* C31: the coordinator and the engine keep one clock.  After every macro  *)
(* step of a fresh reactor with an attached particle solver the engine's   *)
(* total_time equals the reactor's time.                                   *)
(***************************************************************************)
BetweenMacroSteps == split_pc = "idle" /\ pc = "idle"

C31_SharedClock ==
    (has_particles /\ BetweenMacroSteps) => total_time = time

(***************************************************************************)
(* C32: an oxidation event lowers the n_carbon of the selected particle by *)
(* exactly max(1, n_carbon div 100) and its n_hydrogen by exactly a        *)
(* quarter (rounded down) of the carbon removed; the particle is deleted   *)
(* from the ensemble if and only if its n_carbon reaches 0.                *)
(***************************************************************************)
CarbonRemoved(p) == Max(1, p.n_carbon \div 100)

\* the event hit the particle at idx, whose n_hydrogen is h afterwards
OxidisedAt(idx, h) ==
    LET p == particles[idx + 1]
        c == p.n_carbon - CarbonRemoved(p)
        rest == Pop(particles, idx)
    IN  /\ carbon_removal_rate(gas', p) > 0
        /\ IF c = 0
           THEN particles' \in {rest, rest \o rest}
           ELSE particles' = [particles EXCEPT ![idx + 1].n_carbon = c,
                                               ![idx + 1].n_hydrogen = h]

C32_OxidationRemoves ==
    [][last'.op = "OXIDATION" =>
          \E idx \in 0 .. Len(particles) - 1 :
              LET p == particles[idx + 1]
              IN  OxidisedAt(idx, p.n_hydrogen - CarbonRemoved(p) \div 4)]_vars

(***************************************************************************)
(* C32, amended: as above, but the hydrogen is removed only when the       *)
(* particle has at least a quarter of the carbon removed; a particle with  *)
(* fewer hydrogen atoms keeps them all.                                    *)
(***************************************************************************)
C32_OxidationRemovesAvailable ==
    [][last'.op = "OXIDATION" =>
          \E idx \in 0 .. Len(particles) - 1 :
              LET p == particles[idx + 1]
                  quarter == CarbonRemoved(p) \div 4
              IN  OxidisedAt(idx, IF p.n_hydrogen >= quarter
                                  THEN p.n_hydrogen - quarter
                                  ELSE p.n_hydrogen)]_vars

C32_Witness ==
    /\ last.op = "OXIDATION"
    /\ last.n = 1
    /\ last.C = 400 * WUnit
    /\ Len(particles) = 1
    /\ particles[1].n_carbon = 396
    /\ particles[1].n_hydrogen = 199

(***************************************************************************)
(* C33: a growth event changes exactly one particle: the selected one,     *)
(* whose growth weight is not zero, gains exactly 2 carbon atoms and 1     *)
(* hydrogen atom; every other particle, the size of the ensemble and the   *)
(* statistical weight are unchanged.                                       *)
(***************************************************************************)
GrownAt(idx) ==
    /\ carbon_addition_rate(gas', particles[idx + 1]) # 0
    /\ particles' = [particles EXCEPT ![idx + 1].n_carbon = @ + 2,
                                      ![idx + 1].n_hydrogen = @ + 1]
    /\ Len(particles') = Len(particles)
    /\ statistical_weight' = statistical_weight

C33_GrowthChangesOne ==
    [][last'.op = "GROWTH" => \E idx \in 0 .. Len(particles) - 1 : GrownAt(idx)]_vars

C33_Witness ==
    /\ last.op = "GROWTH"
    /\ Len(particles) = 2
    /\ particles[1] = Particle(0, 0, 1, 0, 0)
    /\ particles[2] = Particle(102, 51, 1, 0, 0)

\* the call doubled the ensemble: it wrote a "Doubled" line
DoublingStep == Len(log') > Len(log)

\* the list after a doubling: the objects that were left, then one new object
\* for each of them, in the same order and in the same state
CopiesFollow ==
    LET n == Len(particles') \div 2
    IN  /\ Len(particles') = 2 * n
        /\ Len(identity') = 2 * n
        /\ \E idx \in 0 .. Len(identity) - 1 : SubSeq(identity', 1, n) = Pop(identity, idx)
        /\ \A i \in 1 .. n :
               /\ particles'[n + i] = particles'[i]
               /\ \A j \in 1 .. 2 * n : identity'[j] = identity'[n + i] => j = n + i

\* the call changed the state shown at exactly one position of the list
OneEntryChanged ==
    /\ Len(particles') = Len(particles)
    /\ \E idx \in 0 .. Len(particles) - 1 :
           /\ particles'[idx + 1] # particles[idx + 1]
           /\ \A i \in 1 .. Len(particles) : i # idx + 1 => particles'[i] = particles[i]

\* C34: a doubling leaves the particles it found followed by one independent
\* copy of each, in the same order; a growth or an oxidation after a doubling
\* changes the entry of the particle it selected and no other entry, so
\* never the duplicate of that particle.
C34_CopiesAreIndependent ==
    [][/\ DoublingStep => CopiesFollow
       /\ (log # <<>> /\ ~DoublingStep /\ Len(particles') = Len(particles)) => OneEntryChanged]_vars

\* an ensemble of three was cut to two and doubled to four, and the growth
\* that followed changed the first particle and left its copy as it was
C34_Witness ==
    /\ log # <<>>
    /\ last.op = "GROWTH"
    /\ Len(particles) = 4
    /\ particles[1] = Particle(102, 51, 1, 0, 0)
    /\ particles[3] = Particle(100, 50, 1, 0, 0)
    /\ particles[2] = Particle(400, 200, 1, 0, 0)
    /\ particles[4] = particles[2]

\* a step call that was given a callback is running or has returned
Called == callback.given /\ (pc = "loop" \/ exit # "none")

\* the times of the events handed over so far never decrease and lie in the
\* interval of the step, and there are as many as the step has counted
CallsInOrder ==
    LET calls == callback.calls
    IN  /\ Len(calls) = step_events
        /\ \A i \in 1 .. Len(calls) :
               /\ t_start <= calls[i].time
               /\ calls[i].time <= t_start + dt
               /\ \A j \in i .. Len(calls) : calls[i].time <= calls[j].time

\* C35: within a step the callback is invoked once for each performed event,
\* in the order the events are performed and at the time of the event; the
\* times never decrease and lie in [t, t + dt]; a draw that performs nothing
\* invokes nothing; and the count step() returns is the number of invocations.
C35_CallbackPerEvent ==
    [][/\ Called' => CallsInOrder'
       /\ (Called /\ pc = "loop") =>
              IF last'.op \in EventType \ {"NONE"}
              THEN /\ callback'.calls = Append(callback.calls,
                                               [event_type |-> last'.op, time |-> total_time'])
                   /\ step_events' = step_events + 1
              ELSE /\ callback'.calls = callback.calls
                   /\ step_events' = step_events]_vars

\* a step over one unit of time has returned 2 after handing its callback an
\* event at its start and a different one at its end
C35_Witness ==
    /\ callback.given
    /\ pc = "idle"
    /\ exit # "none"
    /\ step_events = 2
    /\ Len(callback.calls) = 2
    /\ callback.calls[1].time = t_start
    /\ callback.calls[2].time = t_start + 1
    /\ callback.calls[1].event_type # callback.calls[2].event_type

\* C36: perform_coagulation on a system of two or more particles leaves one
\* particle fewer, the same total num_atoms and the same total mass, whichever
\* two distinct indices are drawn.
C36_CoagulationConserves ==
    [][(last'.op = "perform_coagulation" /\ Len(particles) >= 2) =>
           /\ Len(particles') = Len(particles) - 1
           /\ SumSeq(particles', "num_atoms") = SumSeq(particles, "num_atoms")
           /\ SumSeq(particles', "mass") = SumSeq(particles, "mass")]_vars

\* C37: the per-kind counters always add up to the number of performed
\* events, which initialize() sets to 0, a call of step() leaves alone and
\* each iteration raises by what it adds to the value step() returns; the
\* NONE counter is 0; and a draw that leaves the ensemble as it was, having
\* performed no event, changes no counter.
C37_CountersMatchEvents ==
    [][/\ CountsTotal(event_counts') = n_events'
       /\ event_counts'["NONE"] = 0
       /\ (pc = "idle" /\ pc' = "idle") => n_events' = 0
       /\ (pc = "idle" /\ pc' = "loop") =>
              /\ n_events' = n_events
              /\ event_counts' = event_counts
              /\ step_events' = 0
       /\ pc = "loop" => n_events' - n_events = step_events' - step_events
       /\ (pc = "loop" /\ particles' = particles /\ statistical_weight' = statistical_weight) =>
              /\ event_counts' = event_counts
              /\ n_events' = n_events]_vars

\* two draws in a row have performed no event, and every counter is still 0
C37_Witness ==
    /\ pc = "loop"
    /\ last.op = "NONE"
    /\ iter = 2
    /\ n_events = 0
    /\ event_counts = NoEvents
    /\ particles # <<>>

\* C38: run() never writes past the arrays it allocated: every snapshot
\* after the initial one goes to an index below n_outputs, at whatever
\* reactor time run() is called.
C38_SnapshotsFit == run.pc # "IndexError"

\* C39: two solvers with the same seed and configuration, given the same
\* initial particles, gas and step calls, perform the same events and hold
\* the same ensemble, clock and counters, although one of them is asked for
\* its rates or source terms between the steps and the other is not.
C39_QueriesLeaveEventsAlone ==
    seed # "None" => [twin EXCEPT !.queried = FALSE] = Solver1


====
